---- MODULE Spec2Model ----
(***************************************************************************)
(* The check-orchestration engine of internal/state/state.go: the status   *)
(* store (hosts, checksByID, cfg), the evaluation pass runOnce with its    *)
(* dependency resolver IsParentOK and transition detector, the event log   *)
(* and the administrative mutation operations.                             *)
(*                                                                         *)
(* Time is a logical clock: 0 is the zero time.Time, pass k runs at k.     *)
(* Go indices are 0-based; sequence positions here are index + 1.          *)
(***************************************************************************)
EXTENDS Integers, Sequences, FiniteSets, TLC

VARIABLES
    hosts,       \* State.hosts: host name -> HostStatus (Checks plus the
                 \*   slots of the backing array beyond len, "tail")
    checksByID,  \* State.checksByID: id -> pointer to a CheckStatus
    cfg,         \* State.cfg.Hosts: the mirrored declarative config
    configPath,  \* State.configPath ("" = not bound)
    disk,        \* the config image last written by saveConfigLocked
    ret,         \* return value of the last administrative operation
    eventLog,    \* the global eventLog
    pc,          \* "idle" | "running" (runOnce holds s.mu) | "crashed"
    clock,       \* number of passes started so far (time.Now of the last)
    now,         \* runOnce: now
    todo,        \* runOnce: hosts the range over s.hosts has yet to visit
    cur,         \* runOnce: hs.Name of the host being visited ("" = none)
    idx,         \* runOnce: i, the index of the next check of cur
    loc,         \* runOnce: locals of the last loop iteration
    out,         \* what the last loop iteration emitted (events printed by
                 \*   logEvent, MQTT publishes, health pings)
    probe,       \* the environment: a fixed probe result per check, or <<>>
                 \*   when the probes answer freely
    ops,         \* number of administrative operations called so far
    view,        \* the value the last read operation returned to its caller
    sched,       \* the goroutine of StartScheduler: where it is, whether a
                 \*   tick is pending on t.C and whether stop is signalled
    net,         \* the environment: whether a notification dispatch (MQTT
                 \*   publish, health-ping request) gets through
    rd,          \* the GetAllHostAnalytics call in progress: where it is,
                 \*   the names it still has to look up and its result so far
    lk           \* the read locks held across steps: the readers holding
                 \*   s.mu and those holding eventLogMutex (a pass holds
                 \*   s.mu for writing exactly while pc = "running")

vars == <<hosts, checksByID, cfg, configPath, disk, ret, eventLog, pc, clock,
          now, todo, cur, idx, loc, out, probe, ops, view, sched, net, rd, lk>>

passVars == <<pc, clock, now, todo, cur, idx, loc, out>>

----------------------------------------------------------------------------
(* Program constants *)

maxLatencyHistory == 20
maxFullHistory == 1000
maxEvents == 500
heatmapSize == 60

CheckPing == "ping"
CheckHTTP == "http"
CheckTCP == "tcp"

(* Bounds of the model *)

MaxPasses == 3

MaxOps == 2

MaxAdminPasses == 2

MaxSteps == 3

MaxChecks == 3

HostNames == {"h1", "h2", "h3"}

----------------------------------------------------------------------------
(* Records *)

Msg(fmt, a, b) == [fmt |-> fmt, a |-> a, b |-> b]

NoMsg == Msg("", 0, 0)

\* CheckStatus as New and the Add*Check operations construct it: every
\* runtime field has its Go zero value.
NewCheck(type, enabled, url, expect, port, id, dependsOn, mqttNotify) ==
    [Type |-> type, Enabled |-> enabled, OK |-> FALSE, ParentFailed |-> FALSE,
     ParentID |-> "", Message |-> NoMsg, LatencyMS |-> 0,
     LatencyHistory |-> <<>>, FullHistory |-> <<>>, CheckedAt |-> 0,
     URL |-> url, Expect |-> expect, Port |-> port, ID |-> id,
     DependsOn |-> dependsOn, MQTTNotify |-> mqttNotify,
     TotalChecks |-> 0, SuccessChecks |-> 0, LastDownAt |-> 0, LastUpAt |-> 0]

\* config.Check
CfgCheck(type, enabled, url, expect, port, id, dependsOn, mqttNotify) ==
    [Type |-> type, Enabled |-> enabled, URL |-> url, Expect |-> expect,
     Port |-> port, ID |-> id, DependsOn |-> dependsOn,
     MQTTNotify |-> mqttNotify]

\* config.Host
CfgHost(name, address, hcurl, checks) ==
    [Name |-> name, Address |-> address, HealthchecksPingURL |-> hcurl,
     Checks |-> checks]

\* HostStatus; tail holds the slots of the Checks backing array beyond len
HostStatus(address, hcurl, checks) ==
    [Address |-> address, HCURL |-> hcurl, Checks |-> checks, tail |-> <<>>]

\* Probe results: PingResult / TCPResult {OK, Latency, Err} and the HTTP
\* result {Code, Latency, Err}, folded into one record.
ResUp == [OK |-> TRUE, Err |-> FALSE, Code |-> 200, Latency |-> 7]
ResErr == [OK |-> FALSE, Err |-> TRUE, Code |-> 0, Latency |-> 0]
ResBad == [OK |-> FALSE, Err |-> FALSE, Code |-> 500, Latency |-> 9]

----------------------------------------------------------------------------
(* The ID index and the dependency resolver *)

\* A *CheckStatus: a slot of the Checks backing array of a HostStatus that
\* s.hosts still holds, or a slot of a HostStatus that DeleteHost dropped
\* from s.hosts (nothing writes to such an object again, so the pointer is
\* kept as the value it reads).
Live(h, pos) == [kind |-> "live", host |-> h, pos |-> pos]
Dead(val) == [kind |-> "dead", val |-> val]

\* the backing array of hs.Checks: the live elements, then the stale slots
Slots(hs) == hs.Checks \o hs.tail

DerefIn(hmap, p) ==
    IF p.kind = "live" THEN Slots(hmap[p.host])[p.pos] ELSE p.val

Deref(p) == DerefIn(hosts, p)

\* ids carried by the live checks of a host map
LiveIDs(hmap) ==
    (UNION {{hmap[h].Checks[i].ID : i \in 1..Len(hmap[h].Checks)} :
            h \in DOMAIN hmap}) \ {""}

\* within one host the later check overwrites the earlier one
LastPosOf(hs, id) ==
    CHOOSE i \in 1..Len(hs.Checks) :
        /\ hs.Checks[i].ID = id
        /\ \A j \in (i+1)..Len(hs.Checks) : hs.Checks[j].ID # id

HostsWith(hmap, id) ==
    {h \in DOMAIN hmap : \E i \in 1..Len(hmap[h].Checks) : hmap[h].Checks[i].ID = id}

\* rebuildCheckIndex: the maps it can build. The range over s.hosts visits the
\* hosts in any order, so for an id carried by checks of several hosts the
\* entry of any of them can be the last one written.
rebuildCheckIndex(hmap) ==
    {ix \in [LiveIDs(hmap) ->
                UNION {{Live(h, i) : i \in 1..Len(hmap[h].Checks)} :
                       h \in DOMAIN hmap}] :
        \A id \in LiveIDs(hmap) :
            /\ ix[id].host \in HostsWith(hmap, id)
            /\ ix[id].pos = LastPosOf(hmap[ix[id].host], id)}

\* IsParentOK that looks at the direct parent only
ResolveParentOnly(dependsOn, visiting) ==
    IF dependsOn = "" THEN "ok"
    ELSE IF dependsOn \notin DOMAIN checksByID THEN "ok"
    ELSE LET parent == Deref(checksByID[dependsOn]) IN
         IF ~parent.Enabled THEN "ok"
         ELSE IF parent.CheckedAt = 0 THEN "ok"
         ELSE IF parent.OK THEN "ok" ELSE "failed"

\* IsParentOK that trusts the parent's status only when the parent was
\* evaluated in the pass that is running
ResolveThisPass(dependsOn, visiting) ==
    IF dependsOn = "" THEN "ok"
    ELSE IF dependsOn \notin DOMAIN checksByID THEN "ok"
    ELSE LET parent == Deref(checksByID[dependsOn]) IN
         IF ~parent.Enabled THEN "ok"
         ELSE IF parent.CheckedAt # now THEN "ok"
         ELSE IF parent.OK THEN "ok" ELSE "failed"

\* IsParentOK, as the walk it makes from a dependsOn id: "ok", "failed", or
\* "overflow" when the recursion comes back to a check it is already
\* resolving (the state does not change during the walk, so it never ends
\* and the goroutine stack overflows).
RECURSIVE Resolve(_, _)
Resolve(dependsOn, visiting) ==
    IF dependsOn = "" THEN "ok"
    ELSE IF dependsOn \notin DOMAIN checksByID THEN "ok"
    ELSE LET parent == Deref(checksByID[dependsOn]) IN
         IF ~parent.Enabled THEN "ok"
         ELSE IF parent.CheckedAt = 0 THEN "ok"
         ELSE IF dependsOn \in visiting THEN "overflow"
         ELSE LET up == Resolve(parent.DependsOn, visiting \cup {dependsOn}) IN
              IF up = "overflow" THEN "overflow"
              ELSE IF up = "failed" THEN "failed"
              ELSE IF parent.OK THEN "ok" ELSE "failed"

\* IsParentOK without the "parent not checked yet" return
RECURSIVE ResolveUnchecked(_, _)
ResolveUnchecked(dependsOn, visiting) ==
    IF dependsOn = "" THEN "ok"
    ELSE IF dependsOn \notin DOMAIN checksByID THEN "ok"
    ELSE LET parent == Deref(checksByID[dependsOn]) IN
         IF ~parent.Enabled THEN "ok"
         ELSE IF dependsOn \in visiting THEN "overflow"
         ELSE LET up == ResolveUnchecked(parent.DependsOn, visiting \cup {dependsOn}) IN
              IF up = "overflow" THEN "overflow"
              ELSE IF up = "failed" THEN "failed"
              ELSE IF parent.OK THEN "ok" ELSE "failed"

IsParentOKUnchecked(c) == ResolveUnchecked(c.DependsOn, {})

IsParentOK(c) == Resolve(c.DependsOn, {})


----------------------------------------------------------------------------
(* One evaluation of one check: probe, classification, analytics *)

\* append that evicts the newest entry instead of the oldest
PushEvictNewest(seq, x, cap) ==
    IF Len(seq) + 1 > cap THEN seq ELSE Append(seq, x)

\* append with FIFO eviction of the oldest entry beyond the cap
Push(seq, x, cap) ==
    IF Len(seq) + 1 > cap THEN Tail(Append(seq, x)) ELSE Append(seq, x)

DataPoint(ts, ok, latencyMS) ==
    [Timestamp |-> ts, OK |-> ok, LatencyMS |-> latencyMS]

\* recordDataPoint with counters that follow the length of the full history
recordDataPointWindowed(c, ts, ok, latencyMS) ==
    [c EXCEPT
        !.LatencyHistory = Push(@, latencyMS, maxLatencyHistory),
        !.FullHistory = Push(@, DataPoint(ts, ok, latencyMS), maxFullHistory),
        !.TotalChecks = Len(Push(c.FullHistory, DataPoint(ts, ok, latencyMS),
                                 maxFullHistory)),
        !.SuccessChecks = IF ok THEN @ + 1 ELSE @]

recordDataPoint(c, ts, ok, latencyMS) ==
    [c EXCEPT
        !.LatencyHistory = Push(@, latencyMS, maxLatencyHistory),
        !.FullHistory = Push(@, DataPoint(ts, ok, latencyMS), maxFullHistory),
        !.TotalChecks = @ + 1,
        !.SuccessChecks = IF ok THEN @ + 1 ELSE @]

\* the external health-ping requests
notifyHealthchecksOK(base) == [url |-> base, path |-> ""]
notifyHealthchecksFail(base) == [url |-> base, path |-> "/fail"]

\* the three post-states the probe branches write
SetUp(c, msg, latencyMS) ==
    [c EXCEPT !.OK = TRUE, !.ParentFailed = FALSE, !.Message = msg,
              !.LatencyMS = latencyMS]

\* a blocked branch that forgets to clear OK
SetBlockedKeepsOK(c) ==
    [c EXCEPT !.ParentFailed = TRUE,
              !.Message = Msg("parent check failed", 0, 0), !.LatencyMS = 0]

SetBlocked(c) ==
    [c EXCEPT !.OK = FALSE, !.ParentFailed = TRUE,
              !.Message = Msg("parent check failed", 0, 0), !.LatencyMS = 0]

SetDown(c, msg, latencyMS) ==
    [c EXCEPT !.OK = FALSE, !.ParentFailed = FALSE, !.Message = msg,
              !.LatencyMS = latencyMS]

ErrMsg == Msg("error", 0, 0)

\* case config.CheckPing with a blocked evaluation kept out of the analytics
EvalPingSuppressed(c0, hs, res, parentOK, t) ==
    LET c == [c0 EXCEPT !.CheckedAt = t]
        c1 == IF res.OK THEN SetUp(c, Msg("pong", 0, 0), res.Latency)
              ELSE IF ~parentOK THEN SetBlocked(c)
              ELSE SetDown(c, IF res.Err THEN ErrMsg ELSE Msg("no reply", 0, 0), 0)
    IN [c |-> IF ~res.OK /\ ~parentOK THEN c1
              ELSE recordDataPoint(c1, t, res.OK, c1.LatencyMS),
        actualOK |-> res.OK, hc |-> <<>>]

\* case config.CheckPing with the fail ping sent for every failed probe
EvalPingNotifyBlocked(c0, hs, res, parentOK, t) ==
    LET c == [c0 EXCEPT !.CheckedAt = t]
        c1 == IF res.OK THEN SetUp(c, Msg("pong", 0, 0), res.Latency)
              ELSE IF ~parentOK THEN SetBlocked(c)
              ELSE SetDown(c, IF res.Err THEN ErrMsg ELSE Msg("no reply", 0, 0), 0)
        hc == IF hs.HCURL = "" THEN <<>>
              ELSE IF res.OK THEN <<notifyHealthchecksOK(hs.HCURL)>>
              ELSE <<notifyHealthchecksFail(hs.HCURL)>>
    IN [c |-> recordDataPoint(c1, t, res.OK, c1.LatencyMS),
        actualOK |-> res.OK, hc |-> hc]

\* case config.CheckPing
EvalPing(c0, hs, res, parentOK, t) ==
    LET c == [c0 EXCEPT !.CheckedAt = t]
        actualOK == res.OK
        c1 == IF res.OK THEN SetUp(c, Msg("pong", 0, 0), res.Latency)
              ELSE IF ~parentOK THEN SetBlocked(c)
              ELSE SetDown(c, IF res.Err THEN ErrMsg ELSE Msg("no reply", 0, 0), 0)
        hc == IF hs.HCURL = "" THEN <<>>
              ELSE IF res.OK THEN <<notifyHealthchecksOK(hs.HCURL)>>
              ELSE IF ~parentOK THEN <<>>
              ELSE <<notifyHealthchecksFail(hs.HCURL)>>
    IN [c |-> recordDataPoint(c1, t, actualOK, c1.LatencyMS),
        actualOK |-> actualOK, hc |-> hc]

\* the expected status of an HTTP check: 200 when unset
ExpectOf(c) == IF c.Expect = 0 THEN 200 ELSE c.Expect

\* case config.CheckHTTP
EvalHTTP(c0, hs, res, parentOK, t) ==
    LET c == [c0 EXCEPT !.CheckedAt = t]
        actualOK == (~res.Err) /\ res.Code = ExpectOf(c)
        status == Msg("status %d (expect %d)", res.Code, ExpectOf(c))
        c1 == IF actualOK THEN SetUp(c, status, res.Latency)
              ELSE IF ~parentOK THEN SetBlocked(c)
              ELSE SetDown(c, IF res.Err THEN ErrMsg ELSE status, res.Latency)
    IN [c |-> recordDataPoint(c1, t, actualOK, c1.LatencyMS),
        actualOK |-> actualOK, hc |-> <<>>]

\* the port a TCP check dials: 80 when unset
PortOf(c) == IF c.Port = 0 THEN 80 ELSE c.Port

\* case config.CheckTCP with the parent looked at before the probe result
EvalTCPParentFirst(c0, hs, res, parentOK, t) ==
    LET c == [c0 EXCEPT !.CheckedAt = t]
        c1 == IF ~parentOK THEN SetBlocked(c)
              ELSE IF res.OK
              THEN SetUp(c, Msg("port %d open", PortOf(c), 0), res.Latency)
              ELSE SetDown(c, IF res.Err THEN ErrMsg
                              ELSE Msg("port %d closed", PortOf(c), 0), 0)
    IN [c |-> recordDataPoint(c1, t, res.OK, c1.LatencyMS),
        actualOK |-> res.OK, hc |-> <<>>]

\* case config.CheckTCP
EvalTCP(c0, hs, res, parentOK, t) ==
    LET c == [c0 EXCEPT !.CheckedAt = t]
        actualOK == res.OK
        c1 == IF res.OK THEN SetUp(c, Msg("port %d open", PortOf(c), 0), res.Latency)
              ELSE IF ~parentOK THEN SetBlocked(c)
              ELSE SetDown(c, IF res.Err THEN ErrMsg
                              ELSE Msg("port %d closed", PortOf(c), 0), 0)
    IN [c |-> recordDataPoint(c1, t, actualOK, c1.LatencyMS),
        actualOK |-> actualOK, hc |-> <<>>]

\* switch c.Type: a type that matches no case is not probed
Probe(c, hs, res, parentOK, t) ==
    IF c.Type = CheckPing THEN EvalPing(c, hs, res, parentOK, t)
    ELSE IF c.Type = CheckHTTP THEN EvalHTTP(c, hs, res, parentOK, t)
    ELSE IF c.Type = CheckTCP THEN EvalTCP(c, hs, res, parentOK, t)
    ELSE [c |-> c, actualOK |-> FALSE, hc |-> <<>>]

----------------------------------------------------------------------------
(* The transition detector and the event log *)

Event(ts, hostName, checkIdx, checkType, eventType, message, duration) ==
    [Timestamp |-> ts, HostName |-> hostName, CheckIdx |-> checkIdx,
     CheckType |-> checkType, EventType |-> eventType, Message |-> message,
     Duration |-> duration]

\* logEvent without the cap
logEventUnbounded(log, e) == Append(log, e)

logEvent(log, e) == Push(log, e, maxEvents)

\* the message handed to publishMQTTStateChange
StateChange(hostName, c, status) ==
    [Host |-> hostName, CheckType |-> c.Type, CheckID |-> c.ID,
     Status |-> status]

\* the three branches of the state-change block
WentDownInverted(wasOK, c) == wasOK /\ ~c.OK /\ c.ParentFailed

WentDownAnyFailure(wasOK, c) == wasOK /\ ~c.OK

WentDownEveryPass(wasOK, c) == ~c.OK /\ ~c.ParentFailed

WentDown(wasOK, c) == wasOK /\ ~c.OK /\ ~c.ParentFailed

CameUp(wasOK, c) == ~wasOK /\ c.OK

UnblockedNever(wasParentFailed, c) == wasParentFailed /\ c.ParentFailed /\ ~c.OK

Unblocked(wasParentFailed, c) == wasParentFailed /\ ~c.ParentFailed /\ ~c.OK

\* duration of a recovery: zero when LastDownAt was never stamped
DownFor(c, t) == IF c.LastDownAt # 0 THEN t - c.LastDownAt ELSE 0

\* a state-change block whose recovery branch ignores wasParentFailed
StateChangesUnguarded(c, hostName, i, wasOK, wasParentFailed, t) ==
    LET down == [c |-> [c EXCEPT !.LastDownAt = t],
                 events |-> <<Event(t, hostName, i, c.Type, "down", c.Message, 0)>>,
                 mqtt |-> IF c.MQTTNotify
                          THEN <<StateChange(hostName, c, "down")>> ELSE <<>>]
        up == [c |-> [c EXCEPT !.LastUpAt = t],
               events |-> <<Event(t, hostName, i, c.Type, "recovered",
                                  Msg("Back up after %v", DownFor(c, t), 0),
                                  DownFor(c, t))>>,
               mqtt |-> IF c.MQTTNotify
                        THEN <<StateChange(hostName, c, "up")>> ELSE <<>>]
    IN IF WentDown(wasOK, c) THEN down
       ELSE IF CameUp(wasOK, c) THEN up
       ELSE IF Unblocked(wasParentFailed, c) THEN down
       ELSE [c |-> c, events |-> <<>>, mqtt |-> <<>>]

\* the body of "if wasChecked { ... }": the check after the block, the
\* events logged and the MQTT messages published, for check i (0-based) of
\* host hostName
StateChanges(c, hostName, i, wasOK, wasParentFailed, t) ==
    LET down == [c |-> [c EXCEPT !.LastDownAt = t],
                 events |-> <<Event(t, hostName, i, c.Type, "down", c.Message, 0)>>,
                 mqtt |-> IF c.MQTTNotify
                          THEN <<StateChange(hostName, c, "down")>> ELSE <<>>]
        up == [c |-> [c EXCEPT !.LastUpAt = t],
               events |-> IF ~wasParentFailed
                          THEN <<Event(t, hostName, i, c.Type, "recovered",
                                       Msg("Back up after %v", DownFor(c, t), 0),
                                       DownFor(c, t))>>
                          ELSE <<>>,
               mqtt |-> IF ~wasParentFailed /\ c.MQTTNotify
                        THEN <<StateChange(hostName, c, "up")>> ELSE <<>>]
    IN IF WentDown(wasOK, c) THEN down
       ELSE IF CameUp(wasOK, c) THEN up
       ELSE IF Unblocked(wasParentFailed, c) THEN down
       ELSE [c |-> c, events |-> <<>>, mqtt |-> <<>>]

TransitionNoBaseline(c, hostName, i, wasOK, wasChecked, wasParentFailed, t) ==
    StateChanges(c, hostName, i, wasOK, wasParentFailed, t)

\* the state-change block: nothing on the first evaluation of a check
Transition(c, hostName, i, wasOK, wasChecked, wasParentFailed, t) ==
    IF wasChecked
    THEN StateChanges(c, hostName, i, wasOK, wasParentFailed, t)
    ELSE [c |-> c, events |-> <<>>, mqtt |-> <<>>]

\* the dispatches of one loop iteration that return an error: all of them
\* when the network is down
Failed(hc, mqtt, up) == IF up THEN <<>> ELSE hc \o mqtt

\* a failed dispatch written into the status of the check
AfterDispatchSurfaced(c, failed) ==
    IF failed = <<>> THEN c
    ELSE [c EXCEPT !.OK = FALSE, !.Message = Msg("dispatch error", 0, 0)]

\* the check after the dispatches: "_ = notifyHealthchecksOK(...)" drops the
\* error and publishMQTTStateChange only logs it
AfterDispatch(c, failed) == c

RECURSIVE LogAll(_, _)
LogAll(log, events) ==
    IF events = <<>> THEN log
    ELSE LogAll(logEvent(log, Head(events)), Tail(events))


----------------------------------------------------------------------------
(* Construction *)

\* New: the runtime status of a config host (URL and Expect only for http
\* checks, Port only for tcp checks)
NewCheckOf(cc) ==
    NewCheck(cc.Type, cc.Enabled,
             IF cc.Type = CheckHTTP THEN cc.URL ELSE "",
             IF cc.Type = CheckHTTP THEN cc.Expect ELSE 0,
             IF cc.Type = CheckTCP THEN cc.Port ELSE 0,
             cc.ID, cc.DependsOn, cc.MQTTNotify)

NewHostOf(ch) ==
    HostStatus(ch.Address, ch.HealthchecksPingURL,
               [i \in 1..Len(ch.Checks) |-> NewCheckOf(ch.Checks[i])])

\* position in c of the last config host called name
CfgPos(c, name) ==
    CHOOSE i \in 1..Len(c) :
        c[i].Name = name /\ \A j \in (i+1)..Len(c) : c[j].Name # name

New(c) ==
    [name \in {c[i].Name : i \in 1..Len(c)} |-> NewHostOf(c[CfgPos(c, name)])]

NoLoc ==
    [host |-> "", i |-> 0, evaluated |-> FALSE, wasOK |-> FALSE,
     wasChecked |-> FALSE, wasParentFailed |-> FALSE, parentOK |-> TRUE,
     actualOK |-> FALSE]

NoOut == [events |-> <<>>, mqtt |-> <<>>, hc |-> <<>>, failed |-> <<>>]

\* no read operation has returned yet
NoView == [op |-> "", at |-> 0, got |-> <<>>, cells |-> <<>>]

\* nobody holds a read lock
NoLocks == [mu |-> {}, ev |-> {}]

\* no GetAllHostAnalytics call is in progress
NoRead == [pos |-> "off", names |-> <<>>, result |-> <<>>, seen |-> {},
           step |-> 0, gap |-> FALSE]

\* StartScheduler has not been called, or its goroutine is left out
NoSched == [pos |-> "off", tick |-> FALSE, stop |-> FALSE]

\* the state New(c) returns, before StartScheduler and SetConfigPath, in an
\* environment where dispatches get through (up) or do not
InitOn(c, up) ==
    /\ cfg = c
    /\ hosts = New(c)
    /\ checksByID \in rebuildCheckIndex(New(c))
    /\ configPath = ""
    /\ disk = <<>>
    /\ ret = "nil"
    /\ eventLog = <<>>
    /\ pc = "idle"
    /\ clock = 0
    /\ now = 0
    /\ todo = {}
    /\ cur = ""
    /\ idx = 0
    /\ loc = NoLoc
    /\ out = NoOut
    /\ ops = 0
    /\ view = NoView
    /\ sched = NoSched
    /\ net = up
    /\ rd = NoRead
    /\ lk = NoLocks

InitWith(c) == InitOn(c, TRUE)

----------------------------------------------------------------------------
(* runOnce: one evaluation pass, one loop iteration per step *)

\* s.mu.Lock(); now := time.Now(); the range over s.hosts starts; at most
\* limit passes are run
runOnceBegin(limit) ==
    /\ pc = "idle"
    /\ clock < limit
    /\ pc' = "running"
    /\ clock' = clock + 1
    /\ now' = clock + 1
    /\ todo' = DOMAIN hosts
    /\ cur' = ""
    /\ idx' = 0
    /\ loc' = NoLoc
    /\ out' = NoOut
    /\ UNCHANGED <<hosts, checksByID, cfg, configPath, disk, ret, eventLog,
                   probe, ops, view, net, rd, lk>>

\* a pass starts, whatever the scheduler goroutine is doing
BeginPassUpTo(limit) == runOnceBegin(limit) /\ UNCHANGED sched

BeginPass == BeginPassUpTo(MaxPasses)

\* for _, hs := range s.hosts: the map yields its hosts in any order
NextHost ==
    /\ pc = "running"
    /\ cur = ""
    /\ \E h \in todo :
        /\ todo' = todo \ {h}
        /\ cur' = IF Len(hosts[h].Checks) = 0 THEN "" ELSE h
    /\ idx' = 0
    /\ UNCHANGED <<hosts, checksByID, cfg, configPath, disk, ret, eventLog,
                   pc, clock, now, loc, out, probe, ops, view, sched, net, rd, lk>>

\* a loop over the checks of a host that ends at the first failed probe
AdvanceUnlessFailed ==
    IF (loc'.evaluated /\ ~loc'.actualOK) \/ idx + 1 >= Len(hosts[cur].Checks)
    THEN cur' = "" /\ idx' = 0
    ELSE cur' = cur /\ idx' = idx + 1

\* i++ of "for i := range hs.Checks"
Advance ==
    IF idx + 1 >= Len(hosts[cur].Checks)
    THEN cur' = "" /\ idx' = 0
    ELSE cur' = cur /\ idx' = idx + 1

\* if !c.Enabled { continue }
SkipDisabled ==
    /\ pc = "running"
    /\ cur # ""
    /\ ~hosts[cur].Checks[idx + 1].Enabled
    /\ loc' = [NoLoc EXCEPT !.host = cur, !.i = idx]
    /\ out' = NoOut
    /\ Advance
    /\ UNCHANGED <<hosts, checksByID, cfg, configPath, disk, ret, eventLog,
                   pc, clock, now, todo, probe, ops, view, sched, net, rd, lk>>

\* IsParentOK(c) recurses without end: the goroutine stack overflows, which
\* ends the process in the middle of the pass
Overflow ==
    /\ pc = "running"
    /\ cur # ""
    /\ hosts[cur].Checks[idx + 1].Enabled
    /\ IsParentOK(hosts[cur].Checks[idx + 1]) = "overflow"
    /\ pc' = "crashed"
    /\ UNCHANGED <<hosts, checksByID, cfg, configPath, disk, ret, eventLog,
                   clock, now, todo, cur, idx, loc, out, probe, ops, view, sched, net, rd, lk>>

\* the body of the loop for an enabled check whose probe returns res
Evaluate(res) ==
    /\ pc = "running"
    /\ cur # ""
    /\ LET hs == hosts[cur]
           c == hs.Checks[idx + 1]
           wasOK == c.OK
           wasChecked == c.CheckedAt # 0
           wasParentFailed == c.ParentFailed
           parentOK == IsParentOK(c) = "ok"
           c1 == IF c.DependsOn # "" THEN [c EXCEPT !.ParentID = c.DependsOn] ELSE c
           p == Probe(c1, hs, res, parentOK, now)
           tr == Transition(p.c, cur, idx, wasOK, wasChecked, wasParentFailed, now)
       IN /\ c.Enabled
          /\ IsParentOK(c) # "overflow"
          /\ hosts' = [hosts EXCEPT ![cur].Checks[idx + 1] =
                           AfterDispatch(tr.c, Failed(p.hc, tr.mqtt, net))]
          /\ eventLog' = LogAll(eventLog, tr.events)
          /\ loc' = [host |-> cur, i |-> idx, evaluated |-> TRUE, wasOK |-> wasOK,
                     wasChecked |-> wasChecked,
                     wasParentFailed |-> wasParentFailed,
                     parentOK |-> parentOK, actualOK |-> p.actualOK]
          /\ out' = [events |-> tr.events, mqtt |-> tr.mqtt, hc |-> p.hc,
                     failed |-> Failed(p.hc, tr.mqtt, net)]
    /\ Advance
    /\ UNCHANGED <<checksByID, cfg, configPath, disk, ret, pc, clock, now,
                   todo, probe, ops, view, sched, net, rd, lk>>

\* the range is exhausted: runOnce returns and the deferred Unlock runs
EndPass ==
    /\ pc = "running"
    /\ cur = ""
    /\ todo = {}
    /\ pc' = "idle"
    /\ loc' = NoLoc
    /\ out' = NoOut
    /\ UNCHANGED <<hosts, checksByID, cfg, configPath, disk, ret, eventLog,
                   clock, now, todo, cur, idx, probe, ops, view, sched, net, rd, lk>>

\* the results a probe can return
Results == {ResUp, ResErr}

\* a probe that answers freely
EvaluateAny == \E res \in Results : Evaluate(res)

\* the steps inside a pass
InPass == NextHost \/ SkipDisabled \/ Overflow \/ EvaluateAny \/ EndPass

Pass == BeginPass \/ InPass

----------------------------------------------------------------------------
(* The evaluation engine alone: a loaded config, passes, free probes *)

\* ids of the loaded configs; "zz" is an id no check carries
Parents1 == {"", "c", "a"}
Parents2 == {"", "a", "zz"}
Parents3 == {"", "a", "b"}

LoadedConfigs ==
    {<<CfgHost("h1", "10.0.0.1", "hc",
               <<CfgCheck(CheckPing, e, "", 0, 0, "a", d1, TRUE),
                 CfgCheck(CheckHTTP, TRUE, "", 0, 0, "b", d2, FALSE)>>),
       CfgHost("h2", "10.0.0.2", "",
               <<CfgCheck(CheckTCP, TRUE, "", 0, 0, "c", d3, TRUE)>>)>> :
        e \in BOOLEAN, d1 \in Parents1, d2 \in Parents2, d3 \in Parents3}

Init ==
    /\ \E c \in LoadedConfigs : InitWith(c)
    /\ probe = <<>>

Next == Pass

Spec == Init /\ [][Next]_vars


----------------------------------------------------------------------------
(* Properties of one evaluation *)

\* the check the last loop iteration visited, as it is now
LastCheck == hosts[loc.host].Checks[loc.i + 1]

IsUP(c) == c.CheckedAt # 0 /\ c.OK /\ ~c.ParentFailed
IsDOWN(c) == c.CheckedAt # 0 /\ ~c.OK /\ ~c.ParentFailed
IsBLOCKED(c) == c.CheckedAt # 0 /\ ~c.OK /\ c.ParentFailed

\* the last iteration logged exactly one event of this type for its check,
\* and it is the newest entry of the event log
LoggedOne(eventType) ==
    /\ Len(out.events) = 1
    /\ out.events[1].EventType = eventType
    /\ out.events[1].HostName = loc.host
    /\ out.events[1].CheckIdx = loc.i
    /\ out.events[1].Timestamp = now
    /\ eventLog # <<>>
    /\ eventLog[Len(eventLog)] = out.events[1]

\* C2: a check last observed UP whose probe fails while its parent resolves
\* healthy logs exactly one down event in that pass and has lastDownAt set
\* to the pass timestamp.
C2_UpToDown ==
    (loc.evaluated /\ loc.wasChecked /\ loc.wasOK /\ ~loc.actualOK /\ loc.parentOK)
        => /\ IsDOWN(LastCheck)
           /\ LoggedOne("down")
           /\ LastCheck.LastDownAt = now

C2_Witness ==
    /\ loc.evaluated /\ loc.wasChecked /\ loc.wasOK /\ ~loc.actualOK /\ loc.parentOK
    /\ LastCheck.DependsOn # ""
    /\ LastCheck.LastDownAt = now

\* C3: an evaluation that leaves the check BLOCKED logs no event and
\* publishes no notification, whatever the state before it.
C3_IntoBlocked ==
    (loc.evaluated /\ IsBLOCKED(LastCheck))
        => out.events = <<>> /\ out.mqtt = <<>>

C3_Witness ==
    /\ loc.evaluated /\ IsBLOCKED(LastCheck)
    /\ loc.wasChecked /\ loc.wasOK
    /\ LastCheck.MQTTNotify
    /\ out.events = <<>>

\* C4: a check last observed BLOCKED whose probe fails while its parent now
\* resolves healthy logs exactly one down event in that pass and has
\* lastDownAt set to the pass timestamp.
C4_BlockedToDown ==
    (loc.evaluated /\ loc.wasChecked /\ ~loc.wasOK /\ loc.wasParentFailed
        /\ ~loc.actualOK /\ loc.parentOK)
        => /\ IsDOWN(LastCheck)
           /\ LoggedOne("down")
           /\ LastCheck.LastDownAt = now

C4_Witness ==
    /\ loc.evaluated /\ loc.wasChecked /\ ~loc.wasOK /\ loc.wasParentFailed
    /\ ~loc.actualOK /\ loc.parentOK
    /\ LoggedOne("down")

\* C5: a check last observed genuinely DOWN whose probe succeeds logs exactly
\* one recovered event whose duration is the pass timestamp minus the
\* check's lastDownAt, the time since it entered DOWN.
C5_RecoveredDuration ==
    (loc.evaluated /\ loc.wasChecked /\ ~loc.wasOK /\ ~loc.wasParentFailed
        /\ loc.actualOK)
        => /\ LoggedOne("recovered")
           /\ out.events[1].Duration = now - LastCheck.LastDownAt

\* C6: the first evaluation of a check logs no event and publishes no
\* notification, whatever the probe result and the parent's health.
C6_FirstEvaluation ==
    (loc.evaluated /\ ~loc.wasChecked)
        => out.events = <<>> /\ out.mqtt = <<>>

C6_Witness ==
    /\ loc.evaluated /\ ~loc.wasChecked
    /\ IsUP(LastCheck) /\ LastCheck.MQTTNotify
    /\ eventLog = <<>>

\* the parent pointer of c resolves to check i (0-based) of host h itself
IsSelf(c, h, i) ==
    /\ c.DependsOn \in DOMAIN checksByID
    /\ checksByID[c.DependsOn] = Live(h, i + 1)

\* the cases in which the parent of c does not count
FailOpen(c) ==
    \/ c.DependsOn = ""
    \/ c.DependsOn \notin DOMAIN checksByID
    \/ ~Deref(checksByID[c.DependsOn]).Enabled
    \/ Deref(checksByID[c.DependsOn]).CheckedAt = 0

\* the same, for the check the last iteration evaluated, at the time it
\* was evaluated (a check that is its own parent was unevaluated then iff
\* this was its first evaluation)
FailOpenThen ==
    IF IsSelf(LastCheck, loc.host, loc.i) THEN ~loc.wasChecked
    ELSE FailOpen(LastCheck)

\* C8: IsParentOK is true for a check whose dependsOn is empty, names no
\* check, names a disabled check or names a check never evaluated; such a
\* check with a failing probe is classified DOWN, never BLOCKED.
C8_FailOpen ==
    /\ \A h \in DOMAIN hosts : \A i \in 1..Len(hosts[h].Checks) :
          FailOpen(hosts[h].Checks[i]) => IsParentOK(hosts[h].Checks[i]) = "ok"
    /\ (loc.evaluated /\ FailOpenThen /\ ~loc.actualOK)
          => loc.parentOK /\ IsDOWN(LastCheck)

C8_Witness ==
    /\ loc.evaluated /\ ~loc.actualOK /\ IsDOWN(LastCheck)
    /\ LastCheck.DependsOn \in DOMAIN checksByID
    /\ ~IsSelf(LastCheck, loc.host, loc.i)
    /\ Deref(checksByID[LastCheck.DependsOn]).Enabled
    /\ Deref(checksByID[LastCheck.DependsOn]).CheckedAt = 0

\* C10: parent-health resolution terminates for every dependency graph,
\* cycles included, so a pass over such a config completes.
C10_PassCompletes == pc # "crashed"


----------------------------------------------------------------------------
(* Steady probes: every check's probe returns the same result in every pass *)

CheckKeys(hmap) ==
    UNION {{<<h, i>> : i \in 0..(Len(hmap[h].Checks) - 1)} : h \in DOMAIN hmap}

\* a probe that answers as the environment fixed it for this check
EvaluateFixed == cur # "" /\ Evaluate(probe[<<cur, idx>>])

InitSteady ==
    /\ \E c \in LoadedConfigs : InitWith(c)
    /\ probe \in [CheckKeys(hosts) -> Results]

NextSteady ==
    BeginPass \/ NextHost \/ SkipDisabled \/ Overflow \/ EvaluateFixed \/ EndPass

SpecSteady == InitSteady /\ [][NextSteady]_vars

\* C7: with no admin operations and every probe returning the same result
\* in every pass, no event is ever logged, for any dependency graph and any
\* visiting order.
C7_SteadyNoEvents == eventLog = <<>>

\* a check that was classified DOWN in one pass and BLOCKED in a later one,
\* its parent being evaluated after it in the first pass, with nothing logged
C7_Witness ==
    /\ clock = MaxPasses /\ pc = "idle" /\ eventLog = <<>>
    /\ \E h \in DOMAIN hosts : \E i \in 1..Len(hosts[h].Checks) :
          /\ IsBLOCKED(hosts[h].Checks[i])
          /\ hosts[h].Checks[i].TotalChecks = MaxPasses
          /\ hosts[h].Checks[i].LatencyHistory # <<>>

----------------------------------------------------------------------------
(* The cascade scenario of the README: Internet and Google *)

CascadeConfig ==
    <<CfgHost("Internet", "8.8.8.8", "",
              <<CfgCheck(CheckPing, TRUE, "", 0, 0, "internet", "", FALSE)>>),
      CfgHost("Google", "google.com", "",
              <<CfgCheck(CheckPing, TRUE, "", 0, 0, "", "internet", FALSE)>>)>>

InitCascade == InitWith(CascadeConfig) /\ probe = <<>>

NextCascade == BeginPass \/ NextHost \/ EvaluateAny \/ EndPass

SpecCascade == InitCascade /\ [][NextCascade]_vars

\* the raw outcome of the probe of the host's first check in pass t
\* (recordDataPoint stores it with the pass timestamp)
ProbedAt(h, t, ok) ==
    \E k \in 1..Len(hosts[h].Checks[1].FullHistory) :
        hosts[h].Checks[1].FullHistory[k] = DataPoint(t, ok,
            hosts[h].Checks[1].FullHistory[k].LatencyMS)

\* the events of the log for a host's first check: all, and those of pass t
EventsOf(h, eventType) ==
    {k \in 1..Len(eventLog) :
        eventLog[k].HostName = h /\ eventLog[k].CheckIdx = 0
        /\ eventLog[k].EventType = eventType}

EventsAt(h, t) ==
    {k \in 1..Len(eventLog) :
        eventLog[k].HostName = h /\ eventLog[k].CheckIdx = 0
        /\ eventLog[k].Timestamp = t}

\* every check of the pass has been visited
PassDone == pc = "running" /\ cur = "" /\ todo = {}

\* C1: with Google depending on Internet and both observed UP, in the pass
\* where both probes start failing Internet becomes DOWN and logs exactly one
\* down event while Google becomes BLOCKED and logs no event; when Internet's
\* probe succeeds in the next pass while Google's still fails, Internet logs
\* one recovered event, Google goes from BLOCKED to DOWN and over the whole
\* scenario exactly one down event is logged for Google - in every order in
\* which the passes visit the hosts.
C1_CascadeScenario ==
    /\ (/\ PassDone /\ now >= 2
        /\ ProbedAt("Internet", now - 1, TRUE) /\ ProbedAt("Google", now - 1, TRUE)
        /\ ProbedAt("Internet", now, FALSE) /\ ProbedAt("Google", now, FALSE))
       => /\ IsDOWN(hosts["Internet"].Checks[1])
          /\ EventsAt("Internet", now) \subseteq EventsOf("Internet", "down")
          /\ Cardinality(EventsAt("Internet", now)) = 1
          /\ IsBLOCKED(hosts["Google"].Checks[1])
          /\ EventsAt("Google", now) = {}
    /\ (/\ PassDone /\ now = 3
        /\ ProbedAt("Internet", 1, TRUE) /\ ProbedAt("Google", 1, TRUE)
        /\ ProbedAt("Internet", 2, FALSE) /\ ProbedAt("Google", 2, FALSE)
        /\ ProbedAt("Internet", 3, TRUE) /\ ProbedAt("Google", 3, FALSE))
       => /\ EventsAt("Internet", now) \subseteq EventsOf("Internet", "recovered")
          /\ Cardinality(EventsAt("Internet", now)) = 1
          /\ IsDOWN(hosts["Google"].Checks[1])
          /\ Cardinality(EventsOf("Google", "down")) = 1


----------------------------------------------------------------------------
(* The config persister *)

\* filepath.Ext
Ext(path) ==
    IF path = "config.yaml" THEN ".yaml"
    ELSE IF path = "config.toml" THEN ".toml"
    ELSE ""

\* the first config host called name, 0 when there is none
\* ("for i := range s.cfg.Hosts { if s.cfg.Hosts[i].Name == name { ...; break } }")
CfgIndex(c, name) ==
    IF \E i \in 1..Len(c) : c[i].Name = name
    THEN CHOOSE i \in 1..Len(c) :
            c[i].Name = name /\ \A j \in 1..(i-1) : c[j].Name # name
    ELSE 0

\* saveConfigLocked, first loop: HC URLs and MQTTNotify flags are copied from
\* the runtime state into cfg
SyncCfg(c, hmap) ==
    [i \in 1..Len(c) |->
        IF c[i].Name \in DOMAIN hmap
        THEN [c[i] EXCEPT
                !.HealthchecksPingURL = hmap[c[i].Name].HCURL,
                !.Checks = [j \in 1..Len(c[i].Checks) |->
                    IF j <= Len(hmap[c[i].Name].Checks)
                    THEN [c[i].Checks[j] EXCEPT
                            !.MQTTNotify = hmap[c[i].Name].Checks[j].MQTTNotify]
                    ELSE c[i].Checks[j]]]
        ELSE c[i]]

\* the file image Marshal / Encode produce
Image(ext, c) == [encoding |-> ext, hosts |-> c]

\* saveConfigLocked that writes the config as it was when the caller took
\* the lock
saveConfigLockedStale(c, hmap, wok) ==
    IF configPath = "" THEN [cfg |-> c, disk |-> disk, ret |-> "nil"]
    ELSE IF Ext(configPath) \notin {".yaml", ".toml"}
         THEN [cfg |-> SyncCfg(c, hmap), disk |-> disk, ret |-> "nil"]
    ELSE IF wok
         THEN [cfg |-> SyncCfg(c, hmap),
               disk |-> Image(Ext(configPath), cfg), ret |-> "nil"]
    ELSE [cfg |-> SyncCfg(c, hmap), disk |-> disk, ret |-> "write error"]

\* saveConfigLocked on config c and runtime hosts hmap; wok says whether the
\* file could be written. Yields the config, the file and the error after it.
saveConfigLocked(c, hmap, wok) ==
    IF configPath = "" THEN [cfg |-> c, disk |-> disk, ret |-> "nil"]
    ELSE IF Ext(configPath) \notin {".yaml", ".toml"}
         THEN [cfg |-> SyncCfg(c, hmap), disk |-> disk, ret |-> "nil"]
    ELSE IF wok
         THEN [cfg |-> SyncCfg(c, hmap),
               disk |-> Image(Ext(configPath), SyncCfg(c, hmap)), ret |-> "nil"]
    ELSE [cfg |-> SyncCfg(c, hmap), disk |-> disk, ret |-> "write error"]

----------------------------------------------------------------------------
(* The administrative operations; each runs under s.mu.Lock() *)

\* the numbers of passes a modelled store has already run when the model
\* picks it up: none, or enough to have a history buffer one short of full
Starts == {0, maxLatencyHistory - 1, maxFullHistory - 1}

\* the start the current run began from, and the passes run since
StartOf == CHOOSE s \in Starts : s <= clock /\ \A r \in Starts : r <= clock => r <= s

PassesRun == clock - StartOf

\* an operation that does not wait for the lock
AdminCallUnlocked ==
    /\ pc # "crashed"
    /\ ops < MaxOps
    /\ PassesRun + ops < MaxSteps
    /\ ops' = ops + 1
    /\ UNCHANGED <<configPath, eventLog, pc, clock, now, todo, cur, idx, loc,
                   out, probe, view, sched, net, rd, lk>>

\* an operation can take the lock, and one more call is within the bounds
AdminCall ==
    /\ pc = "idle"
    /\ ops < MaxOps
    /\ PassesRun + ops < MaxSteps
    /\ ops' = ops + 1
    /\ UNCHANGED <<configPath, eventLog, pc, clock, now, todo, cur, idx, loc,
                   out, probe, view, sched, net, rd, lk>>

\* an early return that comes after the save instead of before it
RejectSaved(err) ==
    \E wok \in BOOLEAN :
        LET sv == saveConfigLocked(cfg, hosts, wok) IN
        /\ ret' = err
        /\ cfg' = sv.cfg
        /\ disk' = sv.disk
        /\ UNCHANGED <<hosts, checksByID>>

\* early return with an error
Reject(err) ==
    /\ ret' = err
    /\ UNCHANGED <<hosts, checksByID, cfg, disk>>

\* a commit that undoes the mutation when the write fails
CommitRollback(hmap, index, c) ==
    \E wok \in BOOLEAN :
        LET sv == saveConfigLocked(c, hmap, wok) IN
        /\ hosts' = IF sv.ret = "nil" THEN hmap ELSE hosts
        /\ checksByID' = IF sv.ret = "nil" THEN index ELSE checksByID
        /\ cfg' = IF sv.ret = "nil" THEN sv.cfg ELSE cfg
        /\ disk' = sv.disk
        /\ ret' = sv.ret

\* the mutation is applied, then "return s.saveConfigLocked()"
Commit(hmap, index, c) ==
    \E wok \in BOOLEAN :
        LET sv == saveConfigLocked(c, hmap, wok) IN
        /\ hosts' = hmap
        /\ checksByID' = index
        /\ cfg' = sv.cfg
        /\ disk' = sv.disk
        /\ ret' = sv.ret

\* after rebuildCheckIndex no pointer refers to a slot beyond len any more
DropTails(hmap) == [h \in DOMAIN hmap |-> [hmap[h] EXCEPT !.tail = <<>>]]

\* the mutation is applied, then rebuildCheckIndex and saveConfigLocked run
CommitRebuilt(hmap, c) ==
    \E index \in rebuildCheckIndex(hmap) : Commit(DropTails(hmap), index, c)

WithHost(hmap, name, hs) ==
    [n \in DOMAIN hmap \cup {name} |-> IF n = name THEN hs ELSE hmap[n]]

WithoutHost(hmap, name) == [n \in DOMAIN hmap \ {name} |-> hmap[n]]

RemoveAt(seq, i) == SubSeq(seq, 1, i - 1) \o SubSeq(seq, i + 1, Len(seq))

DefaultPing == NewCheck(CheckPing, TRUE, "", 0, 0, "", "", FALSE)

DefaultCfgPing == CfgCheck(CheckPing, TRUE, "", 0, 0, "", "", FALSE)

AddHost(name, address, hcurl) ==
    /\ AdminCall
    /\ IF name \in DOMAIN hosts THEN Reject("host exists")
       ELSE Commit(WithHost(hosts, name, HostStatus(address, hcurl, <<DefaultPing>>)),
                   checksByID,
                   Append(cfg, CfgHost(name, address, hcurl, <<DefaultCfgPing>>)))

AddHostWithoutDefaultCheck(name, address, hcurl) ==
    /\ AdminCall
    /\ IF name \in DOMAIN hosts THEN Reject("host exists")
       ELSE Commit(WithHost(hosts, name, HostStatus(address, hcurl, <<>>)),
                   checksByID,
                   Append(cfg, CfgHost(name, address, hcurl, <<>>)))

\* the pointers of the index into the HostStatus keep pointing into it when
\* the map key changes
Rekey(index, oldName, newName) ==
    [id \in DOMAIN index |->
        IF index[id].kind = "live" /\ index[id].host = oldName
        THEN Live(newName, index[id].pos) ELSE index[id]]

\* UpdateHost that renames the runtime host and leaves cfg alone
UpdateHostRuntimeOnly(oldName, newName, address, hcurl) ==
    /\ AdminCall
    /\ IF oldName \notin DOMAIN hosts THEN Reject("host not found")
       ELSE IF newName # oldName /\ newName \in DOMAIN hosts
       THEN Reject("host name already exists")
       ELSE LET hs == [hosts[oldName] EXCEPT !.Address = address, !.HCURL = hcurl]
            IN Commit(WithHost(WithoutHost(hosts, oldName), newName, hs),
                      Rekey(checksByID, oldName, newName), cfg)

UpdateHost(oldName, newName, address, hcurl) ==
    /\ AdminCall
    /\ IF oldName \notin DOMAIN hosts THEN Reject("host not found")
       ELSE IF newName # oldName /\ newName \in DOMAIN hosts
       THEN Reject("host name already exists")
       ELSE LET hs == [hosts[oldName] EXCEPT !.Address = address, !.HCURL = hcurl]
                k == CfgIndex(cfg, oldName)
            IN Commit(WithHost(WithoutHost(hosts, oldName), newName, hs),
                      Rekey(checksByID, oldName, newName),
                      IF k = 0 THEN cfg
                      ELSE [cfg EXCEPT ![k].Name = newName,
                                       ![k].Address = address,
                                       ![k].HealthchecksPingURL = hcurl])

\* the index keeps its pointers into the HostStatus that left the map
Orphan(index, name) ==
    [id \in DOMAIN index |->
        IF index[id].kind = "live" /\ index[id].host = name
        THEN Dead(Deref(index[id])) ELSE index[id]]

DeleteHost(name) ==
    /\ AdminCall
    /\ IF name \notin DOMAIN hosts THEN Reject("host not found")
       ELSE LET k == CfgIndex(cfg, name) IN
            Commit(WithoutHost(hosts, name), Orphan(checksByID, name),
                   IF k = 0 THEN cfg ELSE RemoveAt(cfg, k))

\* the three Add*Check operations: append to runtime and to cfg, rebuild
AddCheck(hostName, cs, cc) ==
    /\ AdminCall
    /\ IF hostName \notin DOMAIN hosts THEN Reject("host not found")
       ELSE /\ Len(hosts[hostName].Checks) < MaxChecks
            /\ LET k == CfgIndex(cfg, hostName) IN
               CommitRebuilt(
                   [hosts EXCEPT ![hostName].Checks = Append(@, cs)],
                   IF k = 0 THEN cfg ELSE [cfg EXCEPT ![k].Checks = Append(@, cc)])

AddHTTPCheck(hostName, url, expect, id, dependsOn, mqttNotify) ==
    AddCheck(hostName,
             NewCheck(CheckHTTP, TRUE, url, expect, 0, id, dependsOn, mqttNotify),
             CfgCheck(CheckHTTP, TRUE, url, expect, 0, id, dependsOn, mqttNotify))

AddPingCheck(hostName, id, dependsOn, mqttNotify) ==
    AddCheck(hostName,
             NewCheck(CheckPing, TRUE, "", 0, 0, id, dependsOn, mqttNotify),
             CfgCheck(CheckPing, TRUE, "", 0, 0, id, dependsOn, mqttNotify))

AddTCPCheck(hostName, port, id, dependsOn, mqttNotify) ==
    AddCheck(hostName,
             NewCheck(CheckTCP, TRUE, "", 0, port, id, dependsOn, mqttNotify),
             CfgCheck(CheckTCP, TRUE, "", 0, port, id, dependsOn, mqttNotify))

\* hs.Checks = append(hs.Checks[:idx], hs.Checks[idx+1:]...): the elements
\* behind idx move one slot down inside the same backing array, whose slot
\* len-1 keeps the value it had
RemoveSlot(hs, i) ==
    [hs EXCEPT !.Checks = RemoveAt(hs.Checks, i),
               !.tail = <<hs.Checks[Len(hs.Checks)]>> \o hs.tail]

RemoveCheck(hostName, i) ==
    /\ AdminCall
    /\ IF hostName \notin DOMAIN hosts THEN Reject("host not found")
       ELSE IF i < 0 \/ i >= Len(hosts[hostName].Checks) THEN Reject("bad index")
       ELSE LET k == CfgIndex(cfg, hostName) IN
            Commit([hosts EXCEPT ![hostName] = RemoveSlot(@, i + 1)],
                   checksByID,
                   IF k = 0 \/ i >= Len(cfg[k].Checks) THEN cfg
                   ELSE [cfg EXCEPT ![k].Checks = RemoveAt(@, i + 1)])

\* an update that also restarts the lifetime counter of the check
PatchFresh(c, fields) ==
    [f \in DOMAIN c |-> IF f \in DOMAIN fields THEN fields[f]
                        ELSE IF f = "TotalChecks" THEN 0 ELSE c[f]]

\* the assignments of an Update*Check operation, applied to a runtime check
\* or to the config check at the same index
Patch(c, fields) ==
    [f \in DOMAIN c |-> IF f \in DOMAIN fields THEN fields[f] ELSE c[f]]

\* the Update*Check operations: type is the type the operation insists on
\* ("" for none), fields the assignments it makes
UpdateCheck(hostName, i, type, typeErr, fields) ==
    /\ AdminCall
    /\ IF hostName \notin DOMAIN hosts THEN Reject("host not found")
       ELSE IF i < 0 \/ i >= Len(hosts[hostName].Checks) THEN Reject("bad index")
       ELSE IF type # "" /\ hosts[hostName].Checks[i + 1].Type # type
       THEN Reject(typeErr)
       ELSE LET k == CfgIndex(cfg, hostName) IN
            CommitRebuilt(
                [hosts EXCEPT ![hostName].Checks[i + 1] = Patch(@, fields)],
                IF k = 0 \/ i >= Len(cfg[k].Checks) THEN cfg
                ELSE [cfg EXCEPT ![k].Checks[i + 1] = Patch(@, fields)])

UpdateHTTPCheck(hostName, i, url, expect, id, dependsOn, mqttNotify) ==
    UpdateCheck(hostName, i, CheckHTTP, "not http check",
                [URL |-> url, Expect |-> expect, ID |-> id,
                 DependsOn |-> dependsOn, MQTTNotify |-> mqttNotify])

UpdateTCPCheck(hostName, i, port, id, dependsOn, mqttNotify) ==
    UpdateCheck(hostName, i, CheckTCP, "not tcp check",
                [Port |-> port, ID |-> id,
                 DependsOn |-> dependsOn, MQTTNotify |-> mqttNotify])

UpdateCheckDependencies(hostName, i, id, dependsOn, mqttNotify) ==
    UpdateCheck(hostName, i, "", "",
                [ID |-> id, DependsOn |-> dependsOn, MQTTNotify |-> mqttNotify])

Toggle(hostName, i, enabled) ==
    /\ AdminCall
    /\ hosts' = IF hostName \in DOMAIN hosts /\ i >= 0
                   /\ i < Len(hosts[hostName].Checks)
                THEN [hosts EXCEPT ![hostName].Checks[i + 1].Enabled = enabled]
                ELSE hosts
    /\ UNCHANGED <<checksByID, cfg, disk, ret>>

SetAllEnabled(enabled) ==
    /\ AdminCall
    /\ hosts' = [h \in DOMAIN hosts |->
                    [hosts[h] EXCEPT !.Checks =
                        [j \in 1..Len(hosts[h].Checks) |->
                            [hosts[h].Checks[j] EXCEPT !.Enabled = enabled]]]]
    /\ UNCHANGED <<checksByID, cfg, disk, ret>>

\* SetHCURL returns nothing: a persistence error is only logged
SetHCURL(hostName, url) ==
    /\ AdminCall
    /\ IF hostName \notin DOMAIN hosts
       THEN UNCHANGED <<hosts, checksByID, cfg, disk, ret>>
       ELSE \E wok \in BOOLEAN :
            LET k == CfgIndex(cfg, hostName)
                hmap == [hosts EXCEPT ![hostName].HCURL = url]
                sv == saveConfigLocked(
                          IF k = 0 THEN cfg
                          ELSE [cfg EXCEPT ![k].HealthchecksPingURL = url],
                          hmap, wok)
            IN /\ hosts' = hmap
               /\ cfg' = sv.cfg
               /\ disk' = sv.disk
               /\ UNCHANGED <<checksByID, ret>>

SetConfigPath(path) ==
    /\ pc = "idle"
    /\ ops < MaxOps
    /\ PassesRun + ops < MaxSteps
    /\ ops' = ops + 1
    /\ configPath' = path
    /\ UNCHANGED <<hosts, checksByID, cfg, disk, ret, eventLog, pc, clock, now,
                   todo, cur, idx, loc, out, probe, view, sched, net, rd, lk>>


----------------------------------------------------------------------------
(* The store under administrative operations and passes *)

\* the arguments the administrative operations are called with
Addresses == {"10.0.0.9"}
HCURLs == {"hc2"}
IDs == {"", "a"}
URLs == {""}
Expects == {0}
Ports == {0}
Notify == {TRUE}
Indexes == {0, 1}
Paths == {"config.yaml"}

AdminConfigs ==
    {<<CfgHost("h1", "10.0.0.1", "hc",
               <<CfgCheck(CheckPing, TRUE, "", 0, 0, "a", "", TRUE),
                 CfgCheck(CheckHTTP, TRUE, "", 0, 0, "b", "a", FALSE)>>),
       CfgHost("h2", "10.0.0.2", "",
               <<CfgCheck(CheckTCP, TRUE, "", 0, 0, "c", d3, TRUE)>>)>> :
        d3 \in {"a"}}

InitAdmin ==
    /\ \E c \in AdminConfigs : InitWith(c)
    /\ probe = <<>>

\* a pass between the operations, within the bounds
BeginPassAdmin == PassesRun + ops < MaxSteps /\ BeginPassUpTo(MaxAdminPasses)

\* any administrative operation, with any arguments
AnyOp ==
    \/ \E n \in HostNames, a \in Addresses, u \in HCURLs : AddHost(n, a, u)
    \/ \E n \in HostNames, a \in Addresses, u \in HCURLs :
          AddHostWithoutDefaultCheck(n, a, u)
    \/ \E o \in HostNames, n \in HostNames, a \in Addresses, u \in HCURLs :
          UpdateHost(o, n, a, u)
    \/ \E n \in HostNames : DeleteHost(n)
    \/ \E n \in HostNames, id \in IDs, d \in IDs, m \in Notify :
          AddPingCheck(n, id, d, m)
    \/ \E n \in HostNames, u \in URLs, e \in Expects, id \in IDs, d \in IDs,
          m \in Notify : AddHTTPCheck(n, u, e, id, d, m)
    \/ \E n \in HostNames, p \in Ports, id \in IDs, d \in IDs, m \in Notify :
          AddTCPCheck(n, p, id, d, m)
    \/ \E n \in HostNames, i \in Indexes : RemoveCheck(n, i)
    \/ \E n \in HostNames, i \in Indexes, u \in URLs, e \in Expects, id \in IDs,
          d \in IDs, m \in Notify : UpdateHTTPCheck(n, i, u, e, id, d, m)
    \/ \E n \in HostNames, i \in Indexes, p \in Ports, id \in IDs, d \in IDs,
          m \in Notify : UpdateTCPCheck(n, i, p, id, d, m)
    \/ \E n \in HostNames, i \in Indexes, id \in IDs, d \in IDs, m \in Notify :
          UpdateCheckDependencies(n, i, id, d, m)
    \/ \E n \in HostNames, i \in Indexes, e \in BOOLEAN : Toggle(n, i, e)
    \/ \E e \in BOOLEAN : SetAllEnabled(e)
    \/ \E n \in HostNames, u \in HCURLs : SetHCURL(n, u)
    \/ \E p \in Paths : SetConfigPath(p)

AdminStep == BeginPassAdmin \/ InPass \/ AnyOp

NextAdmin == AdminStep

SpecAdmin == InitAdmin /\ [][NextAdmin]_vars


\* the index entry of id points at a live check that carries id
PointsAtLive(id) ==
    /\ checksByID[id].kind = "live"
    /\ checksByID[id].host \in DOMAIN hosts
    /\ checksByID[id].pos <= Len(hosts[checksByID[id].host].Checks)
    /\ hosts[checksByID[id].host].Checks[checksByID[id].pos].ID = id

IndexExact ==
    /\ DOMAIN checksByID = LiveIDs(hosts)
    /\ \A id \in DOMAIN checksByID : PointsAtLive(id)

\* a check whose dependsOn names no existing check resolves parent-healthy
MissingParentHealthy ==
    (loc.evaluated /\ LastCheck.DependsOn \notin LiveIDs(hosts)) => loc.parentOK

\* C9: after any sequence of admin operations the ID index maps exactly the
\* non-empty ids of the existing checks to those checks, so that once
\* RemoveCheck or DeleteHost has removed the check a dependsOn names, the
\* dependent resolves parent-healthy in every later pass.
C9_IndexExact ==
    /\ IndexExact
    /\ MissingParentHealthy
    /\ pc # "crashed"

----------------------------------------------------------------------------
(* A long-running store: one host whose check has been evaluated in every  *)
(* pass so far, then passes and operations on it                           *)

LongName == "h1"

\* the names UpdateHost can give the host
LongNames == {"h1", "h2"}

LongTypes == {CheckPing, CheckHTTP}

LongConfig(type) ==
    <<CfgHost(LongName, "10.0.0.1", "",
              <<CfgCheck(type, TRUE, "", 0, 0, "a", "", FALSE)>>)>>

\* one pass over the check c of LongConfig at time t, its probe succeeding
RanOnce(c, t) ==
    LET p == Probe(c, New(LongConfig(c.Type))[LongName], ResUp, TRUE, t)
    IN Transition(p.c, LongName, 0, c.OK, c.CheckedAt # 0, c.ParentFailed, t).c

\* the passes at times from + 1 .. to over the check c, in order (halving
\* the interval keeps the nesting of the evaluation shallow)
RECURSIVE RanOver(_, _, _)
RanOver(c, from, to) ==
    IF to <= from THEN c
    ELSE IF to = from + 1 THEN RanOnce(c, to)
    ELSE LET mid == (from + to) \div 2
             half == RanOver(c, from, mid)
         IN IF half.CheckedAt = mid THEN RanOver(half, mid, to) ELSE half

\* the check of LongConfig after n passes in which its probe succeeded
Ran(type, n) == RanOver(New(LongConfig(type))[LongName].Checks[1], 0, n)

InitLong ==
    \E type \in LongTypes, n \in Starts :
        /\ cfg = LongConfig(type)
        /\ hosts = [New(LongConfig(type)) EXCEPT ![LongName].Checks[1] = Ran(type, n)]
        /\ checksByID \in rebuildCheckIndex(New(LongConfig(type)))
        /\ configPath = ""
        /\ disk = <<>>
        /\ ret = "nil"
        /\ eventLog = <<>>
        /\ pc = "idle"
        /\ clock = n
        /\ now = n
        /\ todo = {}
        /\ cur = ""
        /\ idx = 0
        /\ loc = NoLoc
        /\ out = NoOut
        /\ ops = 0
        /\ view = NoView
        /\ sched = NoSched
        /\ net = TRUE
        /\ rd = NoRead
        /\ lk = NoLocks
        /\ probe = <<>>

BeginPassLong ==
    /\ PassesRun + ops < MaxSteps
    /\ BeginPassUpTo(StartOf + MaxPasses)

\* operations that leave the first check of the host in place
LongStep ==
    \/ BeginPassLong
    \/ InPass
    \/ \E o \in LongNames, n \in LongNames, a \in Addresses, u \in HCURLs :
          UpdateHost(o, n, a, u)
    \/ \E n \in LongNames, id \in IDs, d \in IDs, m \in Notify :
          AddPingCheck(n, id, d, m)
    \/ \E n \in LongNames : RemoveCheck(n, 1)
    \/ \E n \in LongNames, u \in URLs, e \in Expects, id \in IDs, d \in IDs,
          m \in Notify : UpdateHTTPCheck(n, 0, u, e, id, d, m)
    \/ \E n \in LongNames, id \in IDs, d \in IDs, m \in Notify :
          UpdateCheckDependencies(n, 0, id, d, m)
    \/ \E n \in LongNames, e \in BOOLEAN : Toggle(n, 0, e)
    \/ \E e \in BOOLEAN : SetAllEnabled(e)
    \/ \E n \in LongNames, u \in HCURLs : SetHCURL(n, u)

NextLong == LongStep

SpecLong == InitLong /\ [][NextLong]_vars

\* the host of the long-running store (UpdateHost can rename it) and its
\* first check
TheHost == CHOOSE h \in DOMAIN hosts : TRUE

TheCheck == hosts[TheHost].Checks[1]

AllChecks ==
    UNION {{hosts[h].Checks[i] : i \in 1..Len(hosts[h].Checks)} : h \in DOMAIN hosts}

\* this step is a loop iteration of runOnce that evaluates a check
EvalStep == pc = "running" /\ hosts' # hosts

\* the check that step evaluates, before and after
EvalOld == hosts[loc'.host].Checks[loc'.i + 1]

EvalNew == hosts'[loc'.host].Checks[loc'.i + 1]

\* this step evaluates the first check of the host
EvalFirst == EvalStep /\ loc'.i = 0

\* the n most recent entries of a sequence, oldest first
LastN(seq, n) ==
    IF Len(seq) <= n THEN seq ELSE SubSeq(seq, Len(seq) - n + 1, Len(seq))

Min(a, b) == IF a <= b THEN a ELSE b

Count(seq) == Cardinality({k \in 1..Len(seq) : seq[k].OK})

\* no buffer is longer than its cap
BuffersBounded ==
    \A c \in AllChecks :
        /\ Len(c.LatencyHistory) <= maxLatencyHistory
        /\ Len(c.FullHistory) <= maxFullHistory

\* the full history is in chronological order and ends with the latest
\* evaluation; the latency history is the latencies of its newest entries
BuffersChronological ==
    \A c \in AllChecks :
        /\ \A k \in 1..(Len(c.FullHistory) - 1) :
              c.FullHistory[k].Timestamp < c.FullHistory[k + 1].Timestamp
        /\ c.FullHistory # <<>> =>
              c.FullHistory[Len(c.FullHistory)].Timestamp = c.CheckedAt
        /\ c.LatencyHistory =
              [k \in 1..Min(Len(c.FullHistory), maxLatencyHistory) |->
                  LastN(c.FullHistory, maxLatencyHistory)[k].LatencyMS]

\* an evaluation leaves in each buffer the most recent entries of the old
\* buffer followed by the new sample
BuffersFIFO ==
    EvalStep =>
        /\ EvalNew.FullHistory =
              LastN(Append(EvalOld.FullHistory,
                           DataPoint(now, loc'.actualOK, EvalNew.LatencyMS)),
                    maxFullHistory)
        /\ EvalNew.LatencyHistory =
              LastN(Append(EvalOld.LatencyHistory, EvalNew.LatencyMS),
                    maxLatencyHistory)

\* no other step touches the buffers of the first check
BuffersKept ==
    ~EvalFirst =>
        /\ TheCheck'.FullHistory = TheCheck.FullHistory
        /\ TheCheck'.LatencyHistory = TheCheck.LatencyHistory

\* C11: after any number of evaluations latencyHistory has at most 20
\* entries and fullHistory at most 1000, and each buffer holds the most
\* recent samples in chronological order: an evaluation that overflows a
\* buffer evicts its single oldest entry.
C11_BuffersFIFO ==
    /\ [](BuffersBounded /\ BuffersChronological)
    /\ [][BuffersFIFO /\ BuffersKept]_vars

\* both buffers are full and have evicted, and the newest sample is a failure
C11_Witness ==
    /\ Len(TheCheck.FullHistory) = maxFullHistory
    /\ Len(TheCheck.LatencyHistory) = maxLatencyHistory
    /\ TheCheck.FullHistory[1].Timestamp > 1
    /\ ~TheCheck.FullHistory[maxFullHistory].OK

\* the lengths of the buffers follow the lifetime counters, and the success
\* counter counts the successful samples
CountersMatch ==
    \A c \in AllChecks :
        /\ Len(c.FullHistory) = Min(c.TotalChecks, maxFullHistory)
        /\ Len(c.LatencyHistory) = Min(c.TotalChecks, maxLatencyHistory)
        /\ c.SuccessChecks <= c.TotalChecks
        /\ c.SuccessChecks >= Count(c.FullHistory)
        /\ c.TotalChecks <= maxFullHistory => c.SuccessChecks = Count(c.FullHistory)

\* a check evaluated in every pass so far has been counted once per pass
\* (the passes before the start all succeeded)
CountersOfPasses ==
    (pc = "idle" /\ ops = 0) =>
        /\ TheCheck.TotalChecks = clock
        /\ TheCheck.SuccessChecks =
              StartOf + Count(LastN(TheCheck.FullHistory, PassesRun))

\* an evaluation counts once, and as a success iff the raw probe succeeded
CountersStep ==
    EvalStep =>
        /\ EvalNew.TotalChecks = EvalOld.TotalChecks + 1
        /\ EvalNew.SuccessChecks =
              EvalOld.SuccessChecks + (IF loc'.actualOK THEN 1 ELSE 0)

\* no other step, administrative operations included, changes the counters
\* of the first check
CountersKept ==
    ~EvalFirst =>
        /\ TheCheck'.TotalChecks = TheCheck.TotalChecks
        /\ TheCheck'.SuccessChecks = TheCheck.SuccessChecks

\* C12: after n evaluations totalChecks = n, successChecks is the number of
\* successful raw outcomes, fullHistory has min(n, 1000) entries and
\* latencyHistory min(n, 20); neither eviction nor an administrative
\* operation on the check decreases or resets the counters.
C12_LifetimeCounters ==
    /\ [](CountersMatch /\ CountersOfPasses)
    /\ [][CountersStep /\ CountersKept]_vars

\* 1001 successful evaluations, an administrative operation among them
C12_Witness ==
    /\ TheCheck.TotalChecks = maxFullHistory + 1
    /\ TheCheck.SuccessChecks = maxFullHistory + 1
    /\ Len(TheCheck.FullHistory) = maxFullHistory
    /\ ops > 0

----------------------------------------------------------------------------
(* Uptime statistics and dependency suppression *)

\* what the uptime statistics of a check are computed from
Uptime(c) ==
    [total |-> c.TotalChecks, success |-> c.SuccessChecks,
     oks |-> [k \in 1..Len(c.FullHistory) |-> c.FullHistory[k].OK]]

\* the check the pass evaluates next
NextCheck == hosts[cur].Checks[idx + 1]

\* the same check as another run with the same raw probe outcomes can have
\* left it: classified otherwise, with other down and up times
OtherRuns(c) ==
    {[c EXCEPT !.OK = ok, !.ParentFailed = pf, !.LatencyMS = l, !.LastDownAt = d] :
        ok \in BOOLEAN, pf \in BOOLEAN, l \in {0, c.LatencyMS},
        d \in {0, c.LastDownAt}}

\* check c after the loop body ran on it with probe result res and parent
\* health parentOK
Evaluated(c, res, parentOK) ==
    Transition(Probe(c, hosts[cur], res, parentOK, now).c, cur, idx,
               c.OK, c.CheckedAt # 0, c.ParentFailed, now).c

\* C13: for the same raw probe outcome the evaluation of a check leaves the
\* same totalChecks, successChecks and ok flags of fullHistory whether its
\* parent resolves healthy or failed and however the check was classified
\* before, so two runs that differ only in the parent's outcomes agree on them.
C13_UptimeUnsuppressed ==
    (pc = "running" /\ cur # "") =>
        \A res \in {ResUp, ResErr, ResBad}, c \in OtherRuns(NextCheck) :
            /\ Uptime(Evaluated(c, res, FALSE)) = Uptime(Evaluated(NextCheck, res, TRUE))
            /\ Uptime(Evaluated(c, res, TRUE)) = Uptime(Evaluated(NextCheck, res, TRUE))

\* a check with samples whose parent has failed: a failing probe classifies
\* it BLOCKED in this run and DOWN in a run whose parent is healthy
C13_Witness ==
    /\ pc = "running" /\ cur # ""
    /\ NextCheck.Enabled /\ NextCheck.TotalChecks > 0
    /\ IsParentOK(NextCheck) = "failed"
    /\ IsBLOCKED(Evaluated(NextCheck, ResErr, FALSE))
    /\ IsDOWN(Evaluated(NextCheck, ResErr, TRUE))

----------------------------------------------------------------------------
(* The store under administrative operations alone *)

\* a URL left on a check that is not an http check
StrayURLs == {"", "http://x"}

\* loaded configs with unique host names
OpsConfigs ==
    {<<CfgHost("h1", "10.0.0.1", "hc",
               <<CfgCheck(CheckPing, TRUE, u, 0, 0, "a", "", TRUE),
                 CfgCheck(CheckHTTP, e, "", 0, 0, "b", "a", FALSE)>>),
       CfgHost("h2", "10.0.0.2", "",
               <<CfgCheck(CheckTCP, TRUE, "", 0, 0, "c", "a", TRUE)>>)>> :
        u \in StrayURLs, e \in BOOLEAN}

InitOps ==
    /\ \E c \in OpsConfigs : InitWith(c)
    /\ probe = <<>>

NextOps == AnyOp

SpecOps == InitOps /\ [][NextOps]_vars

\* the names of the config hosts
CfgNames == {cfg[k].Name : k \in 1..Len(cfg)}

\* runtime and config hold the same hosts, each once, with check lists of
\* the same length
SameHosts ==
    /\ DOMAIN hosts = CfgNames
    /\ Len(cfg) = Cardinality(CfgNames)
    /\ \A h \in DOMAIN hosts :
          Len(hosts[h].Checks) = Len(cfg[CfgIndex(cfg, h)].Checks)

\* runtime check rc and config check cc agree on the listed fields
SameOn(rc, cc, fields) == \A f \in fields : rc[f] = cc[f]

\* the fields New copies for a check of this type
FieldsOf(type) ==
    {"Type", "ID", "DependsOn"}
        \cup (IF type = CheckHTTP THEN {"URL", "Expect"} ELSE {})
        \cup (IF type = CheckTCP THEN {"Port"} ELSE {})

C15_EnabledMirrored ==
    \A h \in DOMAIN hosts : \A i \in 1..Len(hosts[h].Checks) :
        (h \in CfgNames /\ i <= Len(cfg[CfgIndex(cfg, h)].Checks)) =>
            cfg[CfgIndex(cfg, h)].Checks[i].Enabled = hosts[h].Checks[i].Enabled

----------------------------------------------------------------------------
(* The lock: passes, operations and the persister *)

\* this step writes the config file
Writes == disk' # disk

\* the write is made by one operation, from its call to its return with no
\* pass running, and the image is the config that operation leaves
WriteLocked ==
    Writes =>
        /\ pc = "idle" /\ pc' = "idle"
        /\ ops' = ops + 1
        /\ UNCHANGED <<clock, now, todo, cur, idx, eventLog>>
        /\ disk' = Image(Ext(configPath), cfg')

\* C16: the persister runs only inside an operation that holds the write
\* lock, so no pass and no other mutation comes between the mutation and the
\* write, and the image written is the config as of that mutation.
C16_WriteUnderLock == [][WriteLocked]_vars

\* a config written by an operation that followed a pass
C16_Witness ==
    /\ disk # <<>> /\ clock > 0 /\ pc = "idle"
    /\ disk = Image(Ext(configPath), cfg)
    /\ Len(cfg) = 3

\* what the administrative operations write of a host map: its hosts, and
\* of each check everything but what an evaluation records
Structure(hmap) ==
    [h \in DOMAIN hmap |->
        [Address |-> hmap[h].Address, HCURL |-> hmap[h].HCURL,
         Checks |-> [i \in 1..Len(hmap[h].Checks) |->
            [f \in {"Type", "Enabled", "URL", "Expect", "Port", "ID",
                    "DependsOn", "MQTTNotify"} |-> hmap[h].Checks[i][f]]]]]

\* while a pass runs no other pass starts and no operation takes effect
PassAlone ==
    pc = "running" =>
        /\ clock' = clock /\ now' = now
        /\ ops' = ops
        /\ UNCHANGED <<cfg, configPath, disk, checksByID, ret>>
        /\ Structure(hosts') = Structure(hosts)

\* a pass starts, and an operation is made, only when no pass runs
OneAtATime ==
    (clock' # clock \/ ops' # ops) =>
        /\ pc = "idle"
        /\ ~(clock' # clock /\ ops' # ops)

\* C17: at most one pass runs at any time and no administrative mutation
\* takes effect between the start and the end of a pass; passes and
\* mutations are totally ordered, whichever scheduler's tick starts a pass.
C17_PassesExclusive == [][PassAlone /\ OneAtATime]_vars

\* the second pass is evaluating checks, after an operation that followed
\* the first pass
C17_Witness ==
    /\ pc = "running" /\ loc.evaluated
    /\ clock = MaxAdminPasses /\ ops > 0
    /\ "h3" \in DOMAIN hosts

----------------------------------------------------------------------------
(* The read operations; each runs under s.mu.RLock() *)

\* a read operation can take the read lock: no pass and no administrative
\* operation holds the lock. The model follows one returned value.
ReadCall(op, got, cells) ==
    /\ pc = "idle"
    /\ view = NoView
    /\ view' = [op |-> op, at |-> clock, got |-> got, cells |-> cells]
    /\ UNCHANGED <<hosts, checksByID, cfg, configPath, disk, ret, eventLog, pc,
                   clock, now, todo, cur, idx, loc, out, probe, ops, sched, net, rd, lk>>

\* a Checks slice that shares the backing array of the store's slice
AliasChecks(hmap, h) == [i \in 1..Len(hmap[h].Checks) |-> Live(h, i)]

\* append([]CheckStatus(nil), hs.Checks...): the CheckStatus values in a
\* backing array of the caller's own. (The history slices inside them still
\* share their arrays with the store; recordDataPoint appends behind their
\* length and reslices, so it writes no slot a copy can see.)
CopyChecks(hmap, h) == [i \in 1..Len(hmap[h].Checks) |-> Dead(hmap[h].Checks[i])]

\* copy := *hs; copy.Checks = append(nil, hs.Checks...)
CopyHost(hmap, h) ==
    [Name |-> h, Address |-> hmap[h].Address, HCURL |-> hmap[h].HCURL,
     Checks |-> CopyChecks(hmap, h)]

\* what a caller reads through a pointer of a returned value
ReadCell(p) ==
    IF p.kind = "dead" THEN p.val
    ELSE IF p.host \in DOMAIN hosts /\ p.pos <= Len(Slots(hosts[p.host]))
    THEN Deref(p)
    ELSE [gone |-> TRUE]

\* what a caller reads in a returned host
ReadHost(hc) ==
    [hc EXCEPT !.Checks = [i \in 1..Len(hc.Checks) |-> ReadCell(hc.Checks[i])]]

\* order[h.Name] = i over s.cfg.Hosts (0-based; a later host of the same
\* name overwrites; 0 for a name cfg does not hold)
OrderOf(c, name) ==
    IF \E i \in 1..Len(c) : c[i].Name = name THEN CfgPos(c, name) - 1 ELSE 0

\* the orders sort.SliceStable can leave the hosts in: ascending by order,
\* hosts of equal order as the range over the map yielded them
Sorted(hmap, c) ==
    {sq \in [1..Cardinality(DOMAIN hmap) -> DOMAIN hmap] :
        /\ \A i, j \in DOMAIN sq : i # j => sq[i] # sq[j]
        /\ \A i, j \in DOMAIN sq :
              i < j => OrderOf(c, sq[i]) <= OrderOf(c, sq[j])}

GetHost(name) ==
    IF name \in DOMAIN hosts
    THEN ReadCall("GetHost",
                  <<ReadHost(CopyHost(hosts, name))>>, <<CopyHost(hosts, name)>>)
    ELSE ReadCall("GetHost", <<>>, <<>>)

Snapshot ==
    \E sq \in Sorted(hosts, cfg) :
        ReadCall("Snapshot",
                 [k \in DOMAIN sq |-> ReadHost(CopyHost(hosts, sq[k]))],
                 [k \in DOMAIN sq |-> CopyHost(hosts, sq[k])])

\* the check a key <<host, index>> names
CheckAt(hmap, k) == hmap[k[1]].Checks[k[2] + 1]

\* float64(SuccessChecks) / float64(TotalChecks) * 100, kept as the two
\* counters it is computed from
UptimeOf(c) == <<c.SuccessChecks, c.TotalChecks>>

\* GetAggregateStats: the counters of the loop over every check; the overall
\* uptime is the mean of Uptimes, else ChecksUp over ChecksUp + ChecksDown,
\* else 100
AggregateStats(hmap) ==
    LET all == CheckKeys(hmap)
        on == {k \in all : CheckAt(hmap, k).Enabled}
        known == {k \in on : CheckAt(hmap, k).CheckedAt # 0}
    IN [TotalHosts |-> Cardinality(DOMAIN hmap),
        TotalChecks |-> Cardinality(all),
        ChecksDisabled |-> Cardinality(all \ on),
        ChecksUnknown |-> Cardinality(on \ known),
        ChecksUp |-> Cardinality({k \in known : CheckAt(hmap, k).OK}),
        ChecksParentFailed |-> Cardinality({k \in known :
            ~CheckAt(hmap, k).OK /\ CheckAt(hmap, k).ParentFailed}),
        ChecksDown |-> Cardinality({k \in known :
            ~CheckAt(hmap, k).OK /\ ~CheckAt(hmap, k).ParentFailed}),
        Uptimes |-> [k \in {k \in known : CheckAt(hmap, k).TotalChecks > 0} |->
                        UptimeOf(CheckAt(hmap, k))]]

GetAggregateStats ==
    ReadCall("GetAggregateStats", AggregateStats(hosts), AggregateStats(hosts))

\* the loop over c.FullHistory of GetHostAnalytics from entry k on: acc holds
\* sum, count, the latencies collected and the running minimum and maximum
RECURSIVE ScanLatencies(_, _, _)
ScanLatencies(hist, k, acc) ==
    IF k > Len(hist) THEN acc
    ELSE LET dp == hist[k]
         IN ScanLatencies(hist, k + 1,
                IF dp.OK /\ dp.LatencyMS > 0
                THEN [sum |-> acc.sum + dp.LatencyMS,
                      count |-> acc.count + 1,
                      latencies |-> Append(acc.latencies, dp.LatencyMS),
                      min |-> IF dp.LatencyMS < acc.min THEN dp.LatencyMS ELSE acc.min,
                      max |-> IF dp.LatencyMS > acc.max THEN dp.LatencyMS ELSE acc.max]
                ELSE acc)

\* sort.Slice(latencies, less by value): position k holds the value v with
\* fewer than k entries below it and at least k entries not above it
SortAscending(seq) ==
    [k \in 1..Len(seq) |->
        CHOOSE v \in {seq[i] : i \in 1..Len(seq)} :
            /\ Cardinality({i \in 1..Len(seq) : seq[i] < v}) < k
            /\ Cardinality({i \in 1..Len(seq) : seq[i] <= v}) >= k]

\* int(float64(n) * 0.95), which is floor(95 n / 100) for every n up to
\* maxFullHistory, then clamped to the last index
P95Index(n) ==
    LET i == (95 * n) \div 100 IN IF i >= n THEN n - 1 ELSE i

\* the latency statistics of GetHostAnalytics: the minimum and the maximum
\* start from the latency of FullHistory[0]; the average is kept as sum and
\* count
LatencyStats(hist) ==
    IF Len(hist) = 0
    THEN [AvgLatency |-> <<0, 1>>, MinLatency |-> 0, MaxLatency |-> 0,
          P95Latency |-> 0]
    ELSE LET acc == ScanLatencies(hist, 1,
                        [sum |-> 0, count |-> 0, latencies |-> <<>>,
                         min |-> hist[1].LatencyMS, max |-> hist[1].LatencyMS])
         IN [AvgLatency |-> IF acc.count > 0 THEN <<acc.sum, acc.count>>
                            ELSE <<0, 1>>,
             MinLatency |-> acc.min,
             MaxLatency |-> acc.max,
             P95Latency |-> IF acc.count > 0
                            THEN SortAscending(acc.latencies)[
                                     P95Index(Len(acc.latencies)) + 1]
                            ELSE 0]

\* the CheckAnalytics of GetHostAnalytics: the fields copied from the check,
\* the copy of its full history, the latency statistics and the ok flags of
\* its newest entries
CheckAnalytics(c) ==
    [Type |-> c.Type, URL |-> c.URL, Enabled |-> c.Enabled, OK |-> c.OK,
     ParentFailed |-> c.ParentFailed, LatencyMS |-> c.LatencyMS,
     Uptime |-> IF c.TotalChecks > 0 THEN UptimeOf(c) ELSE <<0, 1>>,
     TotalChecks |-> c.TotalChecks, SuccessChecks |-> c.SuccessChecks,
     FailedChecks |-> c.TotalChecks - c.SuccessChecks,
     History |-> c.FullHistory,
     AvgLatency |-> LatencyStats(c.FullHistory).AvgLatency,
     MinLatency |-> LatencyStats(c.FullHistory).MinLatency,
     MaxLatency |-> LatencyStats(c.FullHistory).MaxLatency,
     P95Latency |-> LatencyStats(c.FullHistory).P95Latency,
     HeatmapData |-> [k \in 1..Min(Len(c.FullHistory), heatmapSize) |->
                         LastN(c.FullHistory, heatmapSize)[k].OK]]

HostAnalytics(hmap, h) ==
    [Name |-> h, Address |-> hmap[h].Address,
     Checks |-> [i \in 1..Len(hmap[h].Checks) |->
                    CheckAnalytics(hmap[h].Checks[i])],
     HasBlockedChecks |-> \E i \in 1..Len(hmap[h].Checks) :
                             hmap[h].Checks[i].ParentFailed]

GetHostAnalytics(hostName) ==
    IF hostName \in DOMAIN hosts
    THEN ReadCall("GetHostAnalytics",
                  <<HostAnalytics(hosts, hostName)>>, <<HostAnalytics(hosts, hostName)>>)
    ELSE ReadCall("GetHostAnalytics", <<>>, <<>>)

\* any read operation
AnyRead ==
    \/ Snapshot
    \/ \E n \in HostNames : GetHost(n)
    \/ GetAggregateStats
    \/ \E n \in HostNames : GetHostAnalytics(n)

\* operations that move, rewrite or drop the checks a reader has seen
ReaderOps ==
    \/ \E n \in HostNames : DeleteHost(n)
    \/ \E n \in HostNames, i \in Indexes : RemoveCheck(n, i)
    \/ \E n \in HostNames, i \in Indexes, id \in IDs, d \in IDs, m \in Notify :
          UpdateCheckDependencies(n, i, id, d, m)
    \/ \E n \in HostNames, i \in Indexes, e \in BOOLEAN : Toggle(n, i, e)

InitReaders == InitAdmin

ReadersStep == BeginPassAdmin \/ InPass \/ ReaderOps \/ AnyRead

NextReaders == ReadersStep

SpecReaders == InitReaders /\ [][NextReaders]_vars

(* ------------------------------------------------------------------ *)
(* C18: readers see a quiescent store and keep what they saw           *)
(* ------------------------------------------------------------------ *)

\* a read operation returns in this step
Reads == view' # view

\* the host as the store holds it
Stored(h) ==
    [Name |-> h, Address |-> hosts[h].Address, HCURL |-> hosts[h].HCURL,
     Checks |-> hosts[h].Checks]

\* the returned value is the store's content of the state the read ran in
ReadsStore ==
    LET v == view' IN
    CASE v.op = "Snapshot" ->
             /\ {v.got[k].Name : k \in DOMAIN v.got} = DOMAIN hosts
             /\ Len(v.got) = Cardinality(DOMAIN hosts)
             /\ \A k \in DOMAIN v.got : v.got[k] = Stored(v.got[k].Name)
      [] v.op = "GetHost" ->
             \/ v.got = <<>> /\ DOMAIN hosts # HostNames
             \/ Len(v.got) = 1 /\ v.got[1].Name \in DOMAIN hosts
                               /\ v.got[1] = Stored(v.got[1].Name)
      [] v.op = "GetAggregateStats" ->
             /\ v.got.TotalHosts = Cardinality(DOMAIN hosts)
             /\ v.got.TotalChecks = Cardinality(CheckKeys(hosts))
             /\ v.got.TotalChecks = v.got.ChecksUp + v.got.ChecksDown
                   + v.got.ChecksParentFailed + v.got.ChecksDisabled
                   + v.got.ChecksUnknown
             /\ \A k \in DOMAIN v.got.Uptimes :
                   v.got.Uptimes[k] = <<CheckAt(hosts, k).SuccessChecks,
                                        CheckAt(hosts, k).TotalChecks>>
      [] v.op = "GetHostAnalytics" ->
             \/ v.got = <<>> /\ DOMAIN hosts # HostNames
             \/ /\ Len(v.got) = 1
                /\ v.got[1].Name \in DOMAIN hosts
                /\ LET hs == hosts[v.got[1].Name] IN
                   /\ Len(v.got[1].Checks) = Len(hs.Checks)
                   /\ \A i \in 1..Len(hs.Checks) :
                         LET a == v.got[1].Checks[i]
                             c == hs.Checks[i]
                         IN /\ a.OK = c.OK
                            /\ a.Enabled = c.Enabled
                            /\ a.ParentFailed = c.ParentFailed
                            /\ a.TotalChecks = c.TotalChecks
                            /\ a.SuccessChecks + a.FailedChecks = c.TotalChecks
                            /\ a.History = c.FullHistory

\* a read runs while no pass and no mutation is in progress, and changes
\* nothing
ReadQuiescent ==
    Reads => /\ pc = "idle"
             /\ UNCHANGED <<hosts, checksByID, cfg, configPath, disk, ret, pc, clock>>
             /\ ReadsStore

\* what the caller finds in the value it was handed is what was returned
ReadKept ==
    view.op \in {"Snapshot", "GetHost"} =>
        [k \in DOMAIN view.cells |-> ReadHost(view.cells[k])] = view.got

\* C18: Snapshot, GetHost, GetAggregateStats and GetHostAnalytics return the
\* store's content of an instant at which no pass and no mutation is in
\* progress, and no later pass or mutation alters the check fields of a value
\* that was already returned.
C18_ReadersConsistent == []ReadKept /\ [][ReadQuiescent]_vars

\* a snapshot was taken, a later pass has rewritten a check of the store, and
\* the snapshot still holds the older value
C18_Witness ==
    /\ view.op = "Snapshot"
    /\ pc = "idle"
    /\ view.at < clock
    /\ \E k \in DOMAIN view.got :
          /\ view.got[k].Name \in DOMAIN hosts
          /\ Len(view.got[k].Checks) > 0
          /\ Len(hosts[view.got[k].Name].Checks) > 0
          /\ view.got[k].Checks[1].CheckedAt < hosts[view.got[k].Name].Checks[1].CheckedAt

(* ------------------------------------------------------------------ *)
(* C19, C20: what a rejected call and a failed write leave behind      *)
(* ------------------------------------------------------------------ *)

\* the call returns err and nothing of the store or the file has changed
Refused(err) ==
    /\ ret' = err
    /\ UNCHANGED <<hosts, cfg, checksByID, disk, configPath>>

\* index i names no check of host n
OutOfRange(n, i) == i < 0 \/ i >= Len(hosts[n].Checks)

\* index i names a check of host n, of another type than type
WrongType(n, i, type) == ~OutOfRange(n, i) /\ hosts[n].Checks[i + 1].Type # type

RefusedHostCalls ==
    \A n \in HostNames, o \in HostNames, a \in Addresses, u \in HCURLs :
        /\ AddHost(n, a, u) /\ n \in DOMAIN hosts => Refused("host exists")
        /\ AddHostWithoutDefaultCheck(n, a, u) /\ n \in DOMAIN hosts
              => Refused("host exists")
        /\ UpdateHost(o, n, a, u) /\ o \notin DOMAIN hosts
              => Refused("host not found")
        /\ UpdateHost(o, n, a, u) /\ o \in DOMAIN hosts /\ n # o
              /\ n \in DOMAIN hosts => Refused("host name already exists")
        /\ DeleteHost(n) /\ n \notin DOMAIN hosts => Refused("host not found")

RefusedAddCalls ==
    \A n \in HostNames, id \in IDs, d \in IDs, m \in Notify :
        n \notin DOMAIN hosts =>
            /\ AddPingCheck(n, id, d, m) => Refused("host not found")
            /\ \A u \in URLs, e \in Expects :
                  AddHTTPCheck(n, u, e, id, d, m) => Refused("host not found")
            /\ \A p \in Ports :
                  AddTCPCheck(n, p, id, d, m) => Refused("host not found")

RefusedIndexCalls ==
    \A n \in HostNames, i \in Indexes, id \in IDs, d \in IDs, m \in Notify :
        /\ n \notin DOMAIN hosts =>
            /\ RemoveCheck(n, i) => Refused("host not found")
            /\ UpdateCheckDependencies(n, i, id, d, m) => Refused("host not found")
            /\ \A u \in URLs, e \in Expects :
                  UpdateHTTPCheck(n, i, u, e, id, d, m) => Refused("host not found")
            /\ \A p \in Ports :
                  UpdateTCPCheck(n, i, p, id, d, m) => Refused("host not found")
        /\ n \in DOMAIN hosts /\ OutOfRange(n, i) =>
            /\ RemoveCheck(n, i) => Refused("bad index")
            /\ UpdateCheckDependencies(n, i, id, d, m) => Refused("bad index")
            /\ \A u \in URLs, e \in Expects :
                  UpdateHTTPCheck(n, i, u, e, id, d, m) => Refused("bad index")
            /\ \A p \in Ports :
                  UpdateTCPCheck(n, i, p, id, d, m) => Refused("bad index")
        /\ n \in DOMAIN hosts /\ WrongType(n, i, CheckHTTP) =>
              \A u \in URLs, e \in Expects :
                  UpdateHTTPCheck(n, i, u, e, id, d, m) => Refused("not http check")
        /\ n \in DOMAIN hosts /\ WrongType(n, i, CheckTCP) =>
              \A p \in Ports :
                  UpdateTCPCheck(n, i, p, id, d, m) => Refused("not tcp check")

\* C19: a rejected admin operation (AddHost with an existing name; UpdateHost
\* with an unknown host or a rename to an existing name; DeleteHost or
\* Add*Check with an unknown host; RemoveCheck or Update*Check with an unknown
\* host or an out-of-range index; UpdateHTTPCheck or UpdateTCPCheck on a check
\* of another type) returns its error and changes nothing: runtime state,
\* config and ID index are as before and no file is written.
C19_RejectedChangesNothing ==
    [][RefusedHostCalls /\ RefusedAddCalls /\ RefusedIndexCalls]_vars

\* a call was rejected while a config path is bound, and there is no file
C19_Witness ==
    /\ ret \in {"host exists", "host not found", "host name already exists",
                "bad index", "not http check", "not tcp check"}
    /\ configPath # ""
    /\ disk = <<>>
    /\ ops > 1

\* the errors of a rejected call
Rejections ==
    {"host exists", "host not found", "host name already exists", "bad index",
     "not http check", "not tcp check"}

\* the config host called n
CfgOf(c, n) == c[CfgIndex(c, n)]

\* the host operations whose arguments pass the checks leave their mutation
\* in the runtime state and in the config
AppliedHostCalls ==
    \A n \in HostNames, o \in HostNames, a \in Addresses, u \in HCURLs :
        /\ n \notin DOMAIN hosts /\ AddHost(n, a, u) =>
              /\ n \in DOMAIN hosts' /\ Len(hosts'[n].Checks) = 1
              /\ Len(cfg') = Len(cfg) + 1 /\ cfg'[Len(cfg')].Name = n
        /\ n \notin DOMAIN hosts /\ AddHostWithoutDefaultCheck(n, a, u) =>
              /\ n \in DOMAIN hosts' /\ Len(hosts'[n].Checks) = 0
              /\ Len(cfg') = Len(cfg) + 1 /\ cfg'[Len(cfg')].Name = n
        /\ o \in DOMAIN hosts /\ (n = o \/ n \notin DOMAIN hosts)
              /\ UpdateHost(o, n, a, u) =>
              /\ DOMAIN hosts' = (DOMAIN hosts \ {o}) \cup {n}
              /\ hosts'[n].Address = a
              /\ CfgIndex(cfg, o) # 0 => CfgOf(cfg', n).Address = a
        /\ n \in DOMAIN hosts /\ DeleteHost(n) =>
              /\ n \notin DOMAIN hosts'
              /\ CfgIndex(cfg, n) # 0 => Len(cfg') = Len(cfg) - 1

\* the same for the check operations
AppliedCheckCalls ==
    \A n \in DOMAIN hosts, i \in Indexes, id \in IDs, d \in IDs, m \in Notify :
        LET grown == Len(hosts'[n].Checks) = Len(hosts[n].Checks) + 1
            set == /\ hosts'[n].Checks[i + 1].ID = id
                   /\ hosts'[n].Checks[i + 1].DependsOn = d
        IN
        /\ AddPingCheck(n, id, d, m) => grown
        /\ \A u \in URLs, e \in Expects :
              AddHTTPCheck(n, u, e, id, d, m) => grown
        /\ \A p \in Ports : AddTCPCheck(n, p, id, d, m) => grown
        /\ ~OutOfRange(n, i) /\ RemoveCheck(n, i) =>
              Len(hosts'[n].Checks) = Len(hosts[n].Checks) - 1
        /\ ~OutOfRange(n, i) /\ UpdateCheckDependencies(n, i, id, d, m) => set
        /\ \A u \in URLs, e \in Expects :
              ~OutOfRange(n, i) /\ ~WrongType(n, i, CheckHTTP)
                 /\ UpdateHTTPCheck(n, i, u, e, id, d, m) => set
        /\ \A p \in Ports :
              ~OutOfRange(n, i) /\ ~WrongType(n, i, CheckTCP)
                 /\ UpdateTCPCheck(n, i, p, id, d, m) => set

\* a call that returns the error of the write has left the file alone and
\* its mutation in place
FailedWriteKept ==
    ret' = "write error" =>
        /\ configPath # ""
        /\ disk' = disk
        /\ AppliedHostCalls
        /\ AppliedCheckCalls

\* without a config path no call writes a file or fails to write one
UnboundSucceeds ==
    configPath = "" /\ configPath' = "" =>
        /\ disk' = disk
        /\ ret' \in {"nil"} \cup Rejections

\* C20: when the persistence write fails during add/update/delete host or
\* add/update/remove check, the operation returns the error and the in-memory
\* mutation stays applied (no rollback); when no config path is bound the
\* same operations succeed without writing anything.
C20_NoRollback == [][FailedWriteKept /\ UnboundSucceeds]_vars

\* AddHost("h3") failed to write its file and the host is in the store and
\* in the config
C20_Witness ==
    /\ ret = "write error"
    /\ configPath # ""
    /\ disk = <<>>
    /\ "h3" \in DOMAIN hosts
    /\ CfgIndex(cfg, "h3") # 0

(* ------------------------------------------------------------------ *)
(* C21: the expected status of an added HTTP check                     *)
(* ------------------------------------------------------------------ *)

\* the last check of host n in the image this step writes
AddedInImage(n) ==
    LET h == disk'.hosts[CfgIndex(disk'.hosts, n)] IN h.Checks[Len(h.Checks)]

\* C21: an HTTP check added with expect = 0 is persisted with expect = 200:
\* after AddHTTPCheck(host, url, 0, ...) the check's expect in the config
\* image handed to the persister is 200.
C21_ExpectPersisted ==
    [][\A n \in HostNames, u \in URLs, id \in IDs, d \in IDs, m \in Notify :
          configPath # "" /\ disk' # disk /\ n \in DOMAIN hosts
             /\ AddHTTPCheck(n, u, 0, id, d, m)
          => AddedInImage(n).Expect = 200]_vars

(* ------------------------------------------------------------------ *)
(* C22: the written file, loaded back                                  *)
(* ------------------------------------------------------------------ *)

\* config.Load of the file at path: an error for an extension it has no
\* parser for, else the decoded hosts, where a host that comes without
\* checks is given one enabled ping check
Load(path, image) ==
    IF Ext(path) \notin {".yaml", ".toml"}
    THEN [err |-> "unsupported config extension", hosts |-> <<>>]
    ELSE [err |-> "nil",
          hosts |-> [i \in 1..Len(image.hosts) |->
                        IF Len(image.hosts[i].Checks) = 0
                        THEN [image.hosts[i] EXCEPT !.Checks = <<DefaultCfgPing>>]
                        ELSE image.hosts[i]]]

\* C22: for every config reachable through the admin operations (hosts left
\* with zero checks included), loading the written file back with config.Load
\* yields the same hosts in the same order with the same checks per host.
C22_RoundTrip ==
    disk # <<>> =>
        /\ Load(configPath, disk).err = "nil"
        /\ Load(configPath, disk).hosts = disk.hosts

(* ------------------------------------------------------------------ *)
(* C23, C24: the external health pings                                 *)
(* ------------------------------------------------------------------ *)

\* C23: the health-ping endpoint of a host is never invoked for a check
\* evaluation whose result is BLOCKED: neither the OK ping nor the fail ping.
C23_BlockedNoPing ==
    loc.evaluated /\ IsBLOCKED(LastCheck) => out.hc = <<>>

\* a ping check of a host with a health-ping URL was just classified BLOCKED
C23_Witness ==
    /\ loc.evaluated
    /\ IsBLOCKED(LastCheck)
    /\ LastCheck.Type = CheckPing
    /\ hosts[loc.host].HCURL # ""
    /\ out.hc = <<>>

\* C24: for each enabled check of any type on a host with a health-ping URL,
\* a result of UP fires the OK ping (GET base URL) and a result of genuine
\* DOWN fires the fail ping (GET base URL + "/fail").
C24_PingsFire ==
    loc.evaluated /\ hosts[loc.host].HCURL # "" =>
        /\ IsUP(LastCheck) =>
              out.hc = <<[url |-> hosts[loc.host].HCURL, path |-> ""]>>
        /\ IsDOWN(LastCheck) =>
              out.hc = <<[url |-> hosts[loc.host].HCURL, path |-> "/fail"]>>

----------------------------------------------------------------------------
(* The event log of a long-running store and its reader GetEvents *)

\* the passes of the flapping store in which the probe of its check succeeds:
\* all of them up to QuietFor, then every second one
QuietFor == maxFullHistory - maxEvents

FlapRes(t) ==
    IF t <= QuietFor \/ (t - QuietFor) % 2 = 0 THEN ResUp ELSE ResErr

\* one pass at time t over the ping check of LongConfig and the event log
FlapOnce(st, t) ==
    LET c == st.c
        p == Probe(c, New(LongConfig(CheckPing))[LongName], FlapRes(t), TRUE, t)
        tr == Transition(p.c, LongName, 0, c.OK, c.CheckedAt # 0, c.ParentFailed, t)
    IN [c |-> tr.c, log |-> LogAll(st.log, tr.events)]

\* the passes at times from + 1 .. to, in order
RECURSIVE FlapOver(_, _, _)
FlapOver(st, from, to) ==
    IF to <= from THEN st
    ELSE IF to = from + 1 THEN FlapOnce(st, to)
    ELSE LET mid == (from + to) \div 2
             half == FlapOver(st, from, mid)
         IN IF half.c.CheckedAt = mid THEN FlapOver(half, mid, to) ELSE half

\* the check and the event log after n passes
Flapped(n) ==
    FlapOver([c |-> New(LongConfig(CheckPing))[LongName].Checks[1], log |-> <<>>],
             0, n)

InitEvents ==
    \E n \in {0, maxFullHistory - 1} :
        /\ cfg = LongConfig(CheckPing)
        /\ hosts = [New(LongConfig(CheckPing)) EXCEPT
                       ![LongName].Checks[1] = Flapped(n).c]
        /\ checksByID \in rebuildCheckIndex(New(LongConfig(CheckPing)))
        /\ configPath = ""
        /\ disk = <<>>
        /\ ret = "nil"
        /\ eventLog = Flapped(n).log
        /\ pc = "idle"
        /\ clock = n
        /\ now = n
        /\ todo = {}
        /\ cur = ""
        /\ idx = 0
        /\ loc = NoLoc
        /\ out = NoOut
        /\ ops = 0
        /\ view = NoView
        /\ sched = NoSched
        /\ net = TRUE
        /\ rd = NoRead
        /\ lk = NoLocks
        /\ probe = <<>>

\* the limits GetEvents is called with
Limits == {-1, 0, 1, 2, maxEvents, maxEvents + 1}

\* the result of GetEvents: result[i] = eventLog[len(eventLog)-1-i]
Newest(log, limit) ==
    LET n == IF limit <= 0 \/ limit > Len(log) THEN Len(log) ELSE limit
    IN [i \in 1..n |-> log[Len(log) - (i - 1)]]

\* GetEvents runs under eventLogMutex.RLock(), not under s.mu: it can run
\* between two loop iterations of a pass
GetEvents(limit) ==
    /\ pc # "crashed"
    /\ view = NoView
    /\ view' = [op |-> "GetEvents", at |-> clock, got |-> Newest(eventLog, limit),
                cells |-> <<>>]
    /\ UNCHANGED <<hosts, checksByID, cfg, configPath, disk, ret, eventLog, pc,
                   clock, now, todo, cur, idx, loc, out, probe, ops, sched, net, rd, lk>>

EventsStep ==
    \/ BeginPassLong
    \/ InPass
    \/ \E limit \in Limits : GetEvents(limit)
    \/ \E e \in BOOLEAN : Toggle(LongName, 0, e)
    \/ \E id \in IDs, d \in IDs, m \in Notify :
          UpdateCheckDependencies(LongName, 0, id, d, m)

NextEvents == EventsStep

SpecEvents == InitEvents /\ [][NextEvents]_vars

(* ------------------------------------------------------------------ *)
(* C25: the event log is a bounded FIFO, read newest first             *)
(* ------------------------------------------------------------------ *)

LogBounded == Len(eventLog) <= maxEvents

\* a step that changes the log appends the events of its loop iteration and
\* keeps the newest maxEvents entries of the result, in their order
LogFIFO ==
    eventLog' # eventLog =>
        /\ out'.events # <<>>
        /\ \E k \in 0..Len(out'.events) :
              eventLog' = SubSeq(eventLog \o out'.events, k + 1,
                                 Len(eventLog) + Len(out'.events))
        /\ Len(eventLog') = Min(Len(eventLog) + Len(out'.events), maxEvents)

\* what the claim says GetEvents(limit) returns
NewestFirst(limit) ==
    LET got == view'.got IN
    /\ Len(got) = IF limit <= 0 \/ limit > Len(eventLog) THEN Len(eventLog)
                  ELSE Min(limit, Len(eventLog))
    /\ \A j \in 1..Len(got) : got[j] = eventLog[Len(eventLog) + 1 - j]

\* C25: the event log never holds more than 500 events and evicts strictly
\* oldest-first; GetEvents(limit) returns the min(limit, len) most recently
\* appended events, newest first, and all events when limit <= 0 or limit
\* exceeds the log length.
C25_EventLogFIFO ==
    /\ []LogBounded
    /\ [][LogFIFO /\ \A limit \in Limits : GetEvents(limit) => NewestFirst(limit)]_vars

\* the log is full, its oldest events have been evicted, and GetEvents(2) has
\* returned the two newest events of a log that was full
C25_Witness ==
    /\ Len(eventLog) = maxEvents
    /\ eventLog[1].Timestamp > QuietFor + 1
    /\ view.op = "GetEvents"
    /\ Len(view.got) = 2
    /\ view.got[1].Timestamp > view.got[2].Timestamp
    /\ view.got[1].Timestamp >= maxFullHistory

(* ------------------------------------------------------------------ *)
(* C26: a pass evaluates every enabled check once                      *)
(* ------------------------------------------------------------------ *)

\* the keys of the checks a step changes
Changed ==
    {k \in CheckKeys(hosts) : CheckAt(hosts', k) # CheckAt(hosts, k)}

\* a loop iteration that changes the store changes one check: an enabled one
\* that this pass has not evaluated yet; it stamps it with the time of the
\* pass, counts it once and goes on with the pass
OnceEach ==
    pc = "running" /\ hosts' # hosts =>
        /\ DOMAIN hosts' = DOMAIN hosts
        /\ Changed = {<<loc'.host, loc'.i>>}
        /\ EvalOld.Enabled
        /\ EvalOld.CheckedAt < now
        /\ EvalNew.CheckedAt = now
        /\ EvalNew.TotalChecks = EvalOld.TotalChecks + 1
        /\ pc' = "running"

\* events are logged for the check the iteration evaluates and for no other
EventsOfEvaluated ==
    eventLog' # eventLog =>
        /\ pc = "running" /\ hosts' # hosts
        /\ \A k \in 1..Len(out'.events) :
              /\ out'.events[k].HostName = loc'.host
              /\ out'.events[k].CheckIdx = loc'.i

\* when the pass returns, every enabled check carries its timestamp and no
\* disabled check does
AllEvaluated ==
    pc = "running" /\ pc' = "idle" =>
        \A k \in CheckKeys(hosts) :
            IF CheckAt(hosts, k).Enabled
            THEN CheckAt(hosts, k).CheckedAt = now
            ELSE CheckAt(hosts, k).CheckedAt < now

\* C26: one pass evaluates every enabled check of every host exactly once and
\* no probe failure aborts it: after a pass every enabled check has checkedAt
\* equal to that pass's timestamp and totalChecks increased by exactly 1, and
\* every disabled check is left unchanged with no event logged for it.
C26_PassEvaluatesAll == [][OnceEach /\ EventsOfEvaluated /\ AllEvaluated]_vars

\* a pass has returned in which the probe of the first check of h1 ended in
\* an error and the check after it was evaluated all the same
C26_Witness ==
    /\ pc = "idle"
    /\ clock > 0
    /\ hosts["h1"].Checks[1].CheckedAt = clock
    /\ hosts["h1"].Checks[1].Message = ErrMsg
    /\ hosts["h1"].Checks[2].CheckedAt = clock
    /\ hosts["h2"].Checks[1].CheckedAt = clock

----------------------------------------------------------------------------
(* The evaluation engine with a notification network that is up or down *)

InitNotify ==
    /\ \E c \in LoadedConfigs, up \in BOOLEAN : InitOn(c, up)
    /\ probe = <<>>

NextNotify == Pass

SpecNotify == InitNotify /\ [][NextNotify]_vars

(* ------------------------------------------------------------------ *)
(* C27: a failed dispatch is not surfaced to the pass                  *)
(* ------------------------------------------------------------------ *)

\* the step is the loop iteration as it runs when every dispatch gets
\* through: the status and analytics of the check, the events logged and the
\* place the loop goes on from
AsDelivered(res) ==
    LET c == EvalOld
        c1 == IF c.DependsOn # "" THEN [c EXCEPT !.ParentID = c.DependsOn] ELSE c
        p == Probe(c1, hosts[cur], res, IsParentOK(c) = "ok", now)
        tr == Transition(p.c, cur, idx, c.OK, c.CheckedAt # 0, c.ParentFailed, now)
    IN /\ loc'.host = cur /\ loc'.i = idx
       /\ EvalNew = tr.c
       /\ Changed = {<<cur, idx>>}
       /\ eventLog' = LogAll(eventLog, tr.events)
       /\ out'.events = tr.events
       /\ out'.mqtt = tr.mqtt
       /\ out'.hc = p.hc
       /\ pc' = "running"
       /\ todo' = todo
       /\ IF idx + 1 >= Len(hosts[cur].Checks)
          THEN cur' = "" /\ idx' = 0
          ELSE cur' = cur /\ idx' = idx + 1

----------------------------------------------------------------------------
(* The scheduler goroutine of StartScheduler *)

\* the goroutine has been launched and is about to call runOnce
Launched == [pos |-> "start", tick |-> FALSE, stop |-> FALSE]

\* the rest of the state, with the scheduler as it is
KeepStore ==
    UNCHANGED <<hosts, checksByID, cfg, configPath, disk, ret, eventLog, pc,
                clock, now, todo, cur, idx, loc, out, probe, ops, view, net, rd, lk>>

\* a scheduler that goes to its loop without the immediate pass
RunFirstSkipped ==
    /\ sched.pos = "start"
    /\ sched' = [sched EXCEPT !.pos = "loop"]
    /\ KeepStore

\* "s.runOnce()" before the loop: one pass immediately
RunFirst ==
    /\ sched.pos = "start"
    /\ runOnceBegin(MaxAdminPasses)
    /\ sched' = [sched EXCEPT !.pos = "loop"]

\* time.NewTicker runs once the first pass has returned
TickerRunning == sched.pos = "loop" /\ (clock > 1 \/ pc = "idle")

\* the ticker puts a tick on t.C (a channel that holds one tick)
Tick ==
    /\ TickerRunning
    /\ ~sched.tick
    /\ clock < MaxAdminPasses
    /\ sched' = [sched EXCEPT !.tick = TRUE]
    /\ KeepStore

\* the owner of the stop channel signals it
Stop ==
    /\ sched.pos # "off"
    /\ ~sched.stop
    /\ sched' = [sched EXCEPT !.stop = TRUE]
    /\ KeepStore

\* the goroutine waits in the select between two passes
Selecting == sched.pos = "loop" /\ pc = "idle"

\* "case <-t.C": when several cases of a select are ready, one of them is
\* run, whichever
SelectTick ==
    /\ Selecting
    /\ sched.tick
    /\ runOnceBegin(MaxAdminPasses)
    /\ sched' = [sched EXCEPT !.tick = FALSE]

\* "case <-stop: return"
SelectStop ==
    /\ Selecting
    /\ sched.stop
    /\ sched' = [sched EXCEPT !.pos = "returned"]
    /\ KeepStore

InitSched ==
    /\ \E c \in LoadedConfigs :
          /\ cfg = c
          /\ hosts = New(c)
          /\ checksByID \in rebuildCheckIndex(New(c))
    /\ configPath = ""
    /\ disk = <<>>
    /\ ret = "nil"
    /\ eventLog = <<>>
    /\ pc = "idle"
    /\ clock = 0
    /\ now = 0
    /\ todo = {}
    /\ cur = ""
    /\ idx = 0
    /\ loc = NoLoc
    /\ out = NoOut
    /\ ops = 0
    /\ view = NoView
    /\ sched = Launched
    /\ net = TRUE
    /\ rd = NoRead
    /\ lk = NoLocks
    /\ probe = <<>>

SchedStep == RunFirst \/ Tick \/ Stop \/ SelectTick \/ SelectStop \/ InPass

NextSched == SchedStep

SpecSched == InitSched /\ [][NextSched]_vars

(* ------------------------------------------------------------------ *)
(* C28: no pass starts after the stop signal                           *)
(* ------------------------------------------------------------------ *)

\* C28: once the stop signal has been delivered no further pass starts, even
\* when a tick is pending at the same moment: a scheduler that waits in its
\* select with stop signalled does not start a pass.
C28_NoPassAfterStop ==
    [][Selecting /\ sched.stop => pc' = "idle"]_vars

(* ------------------------------------------------------------------ *)
(* C29: the classification of one evaluation                           *)
(* ------------------------------------------------------------------ *)

\* the last loop iteration evaluated a check of one of the three types
Classified == loc.evaluated /\ LastCheck.Type \in {CheckPing, CheckHTTP, CheckTCP}

\* C29: for every check type, an evaluation leaves the check UP (ok = true,
\* parentFailed = false) iff the probe met its expectation, whatever the
\* health of the parent; BLOCKED (ok = false, parentFailed = true) iff the
\* probe failed and the parent resolved unhealthy before the probe; DOWN
\* (ok = false, parentFailed = false) iff the probe failed and the parent
\* resolved healthy.
C29_Classification ==
    Classified =>
        /\ (LastCheck.OK /\ ~LastCheck.ParentFailed) <=> loc.actualOK
        /\ (~LastCheck.OK /\ LastCheck.ParentFailed)
              <=> (~loc.actualOK /\ ~loc.parentOK)
        /\ (~LastCheck.OK /\ ~LastCheck.ParentFailed)
              <=> (~loc.actualOK /\ loc.parentOK)
        /\ LastCheck.CheckedAt = now

\* a tcp check whose probe succeeded while its parent was unhealthy is UP
C29_Witness ==
    /\ loc.evaluated
    /\ LastCheck.Type = CheckTCP
    /\ ~loc.parentOK
    /\ loc.actualOK
    /\ IsUP(LastCheck)

(* ------------------------------------------------------------------ *)
(* C30: parent health is resolved up the whole chain                   *)
(* ------------------------------------------------------------------ *)

\* the id names an ancestor the walk goes through: it resolves to a check
\* that is enabled and has been evaluated
Followed(id) ==
    /\ id # ""
    /\ id \in DOMAIN checksByID
    /\ Deref(checksByID[id]).Enabled
    /\ Deref(checksByID[id]).CheckedAt # 0

\* the ids the set S reaches by following dependsOn
RECURSIVE Reach(_)
Reach(S) ==
    LET more == S \cup {d \in {Deref(checksByID[id]).DependsOn : id \in S} :
                           Followed(d)}
    IN IF more = S THEN S ELSE Reach(more)

\* the ancestors the walk from check c meets before it stops
Ancestors(c) == Reach({d \in {c.DependsOn} : Followed(d)})

\* C30: IsParentOK(c) is false iff walking the dependsOn chain from c -
\* stopping at the first ancestor that is unresolvable, disabled or never
\* evaluated - meets an ancestor with ok = false; in particular a check whose
\* direct parent is UP but whose grandparent is DOWN resolves
\* parent-unhealthy.
C30_ChainResolved ==
    \A c \in AllChecks :
        IsParentOK(c) # "overflow" =>
            (IsParentOK(c) = "failed"
                <=> \E id \in Ancestors(c) : ~Deref(checksByID[id]).OK)

\* the http check of h1 was evaluated with its parent resolved unhealthy:
\* its parent, the ping check, is UP and its grandparent, the tcp check of
\* h2, is DOWN
C30_Witness ==
    /\ loc.evaluated /\ loc.host = "h1" /\ loc.i = 1
    /\ ~loc.parentOK
    /\ hosts["h1"].Checks[2].DependsOn = "a"
    /\ hosts["h1"].Checks[1].DependsOn = "c"
    /\ IsUP(hosts["h1"].Checks[1])
    /\ IsDOWN(hosts["h2"].Checks[1])

----------------------------------------------------------------------------
(* Recovery events *)

\* an event of this type is among the events of a sequence
Has(events, eventType) ==
    \E k \in DOMAIN events : events[k].EventType = eventType

\* an evaluation logs a recovered event only for a check that was DOWN
RecoveredFromDown ==
    EvalStep /\ Has(out'.events, "recovered") => IsDOWN(EvalOld)

\* an evaluation that takes a check from BLOCKED to UP logs nothing,
\* publishes nothing and stamps LastUpAt only
UnblockedUpSilent ==
    EvalStep /\ IsBLOCKED(EvalOld) /\ IsUP(EvalNew)
        => /\ out'.events = <<>>
           /\ out'.mqtt = <<>>
           /\ eventLog' = eventLog
           /\ EvalNew.LastUpAt = now
           /\ EvalNew.LastDownAt = EvalOld.LastDownAt

\* C31: a recovered event is logged only when the check was genuinely DOWN
\* just before the evaluation; a check going from BLOCKED to UP logs no
\* event and publishes no notification, only lastUpAt is stamped; no
\* recovered event is logged for a check that was UP or never evaluated.
C31_RecoveredOnlyFromDown == [][RecoveredFromDown /\ UnblockedUpSilent]_vars

C31_Witness ==
    /\ loc.evaluated /\ loc.wasChecked /\ ~loc.wasOK /\ loc.wasParentFailed
    /\ IsUP(LastCheck)
    /\ LastCheck.MQTTNotify
    /\ LastCheck.LastUpAt = now
    /\ out.events = <<>>

----------------------------------------------------------------------------
(* The latency statistics of GetHostAnalytics *)

\* an HTTP probe answers with any of these: quickly or slowly with the
\* expected status, with a connection error, or with another status
ResQuick == [OK |-> TRUE, Err |-> FALSE, Code |-> 200, Latency |-> 0]
ResSlow == [OK |-> TRUE, Err |-> FALSE, Code |-> 200, Latency |-> 30]

StatResults == {ResUp, ResQuick, ResSlow, ResErr, ResBad}

\* the result of the probe of the pass at time t of a store picked up later:
\* the expected status after 1 to 5 ms
WarmRes(t) == [OK |-> TRUE, Err |-> FALSE, Code |-> 200, Latency |-> 1 + (t % 5)]

\* the check c of LongConfig after the passes at times from + 1 .. to
RECURSIVE WarmOver(_, _, _)
WarmOver(c, from, to) ==
    IF to <= from THEN c
    ELSE LET b == WarmOver(c, from, to - 1)
             p == Probe(b, New(LongConfig(CheckHTTP))[LongName], WarmRes(to), TRUE, to)
         IN Transition(p.c, LongName, 0, b.OK, b.CheckedAt # 0, b.ParentFailed, to).c

InitStats ==
    \E n \in {0, maxLatencyHistory - 1} :
        /\ cfg = LongConfig(CheckHTTP)
        /\ hosts = [New(LongConfig(CheckHTTP)) EXCEPT ![LongName].Checks[1] =
                        WarmOver(New(LongConfig(CheckHTTP))[LongName].Checks[1], 0, n)]
        /\ checksByID \in rebuildCheckIndex(New(LongConfig(CheckHTTP)))
        /\ configPath = ""
        /\ disk = <<>>
        /\ ret = "nil"
        /\ eventLog = <<>>
        /\ pc = "idle"
        /\ clock = n
        /\ now = n
        /\ todo = {}
        /\ cur = ""
        /\ idx = 0
        /\ loc = NoLoc
        /\ out = NoOut
        /\ ops = 0
        /\ view = NoView
        /\ sched = NoSched
        /\ net = TRUE
        /\ rd = NoRead
        /\ lk = NoLocks
        /\ probe = <<>>

StatsStep ==
    \/ BeginPassLong
    \/ NextHost
    \/ \E res \in StatResults : Evaluate(res)
    \/ EndPass
    \/ GetHostAnalytics(LongName)

NextStats == StatsStep

SpecStats == InitStats /\ [][NextStats]_vars

\* the latencies of the entries of a history that are ok with a positive
\* latency, in the order of the history
Qualifying(hist) ==
    LET q == SelectSeq(hist, LAMBDA dp : dp.OK /\ dp.LatencyMS > 0)
    IN [k \in 1..Len(q) |-> q[k].LatencyMS]

Least(S) == CHOOSE x \in S : \A y \in S : x <= y
Greatest(S) == CHOOSE x \in S : \A y \in S : x >= y

\* the analytics GetHostAnalytics returned, check by check
Analysed == IF view.op = "GetHostAnalytics" /\ view.got # <<>>
            THEN view.got[1].Checks ELSE <<>>

\* the reported P95 is the entry at index floor(0.95 n), clamped, of the
\* sorted qualifying latencies
P95OfQualifying ==
    \A i \in DOMAIN Analysed :
        LET q == Qualifying(Analysed[i].History)
        IN q # <<>> =>
            Analysed[i].P95Latency =
                SortAscending(q)[Min((95 * Len(q)) \div 100, Len(q) - 1) + 1]

\* the reported minimum and maximum are those of the qualifying latencies
ExtremesOfQualifying ==
    \A i \in DOMAIN Analysed :
        LET q == Qualifying(Analysed[i].History)
        IN q # <<>> =>
            /\ Analysed[i].MinLatency = Least({q[k] : k \in DOMAIN q})
            /\ Analysed[i].MaxLatency = Greatest({q[k] : k \in DOMAIN q})

\* C32: for a full history with at least one entry that is ok with a
\* positive latency, the minimum, maximum and P95 latency GetHostAnalytics
\* reports are the least, the greatest and the entry at index floor(0.95 n)
\* (clamped to n - 1) of the sorted latencies of exactly those entries.
C32_LatencyStats == ExtremesOfQualifying /\ P95OfQualifying

----------------------------------------------------------------------------
(* The runtime fields under the administrative operations *)

\* the fields of a check the evaluator writes
Runtime(c) ==
    [OK |-> c.OK, ParentFailed |-> c.ParentFailed, CheckedAt |-> c.CheckedAt,
     LatencyHistory |-> c.LatencyHistory, FullHistory |-> c.FullHistory,
     TotalChecks |-> c.TotalChecks, SuccessChecks |-> c.SuccessChecks,
     LastDownAt |-> c.LastDownAt, LastUpAt |-> c.LastUpAt]

RuntimeOf(hs) == [i \in 1..Len(hs.Checks) |-> Runtime(hs.Checks[i])]

\* this step is an administrative operation: the lock is free before and
\* after it
AdminOpStep == pc = "idle" /\ pc' = "idle"

\* the checks of a host keep their runtime fields: all of them are there
\* unchanged, followed by one added check or short of one removed check
RuntimeKeptIn(old, new) ==
    \/ new = old
    \/ Len(new) = Len(old) + 1 /\ SubSeq(new, 1, Len(old)) = old
    \/ \E i \in 1..Len(old) : new = RemoveAt(old, i)

\* every host of the store is still there with the runtime fields of its
\* checks, or was renamed with them, or was deleted
RuntimeKept ==
    \A h \in DOMAIN hosts :
        IF h \in DOMAIN hosts'
        THEN RuntimeKeptIn(RuntimeOf(hosts[h]), RuntimeOf(hosts'[h]))
        ELSE \/ DOMAIN hosts' = DOMAIN hosts \ {h}
             \/ \E n \in DOMAIN hosts' \ DOMAIN hosts :
                    /\ DOMAIN hosts' = (DOMAIN hosts \ {h}) \cup {n}
                    /\ RuntimeOf(hosts'[n]) = RuntimeOf(hosts[h])

\* C33: no administrative operation changes ok, parentFailed, checkedAt,
\* latencyHistory, fullHistory, totalChecks, successChecks, lastDownAt or
\* lastUpAt of a check that exists before and after it; only the evaluator
\* writes these fields.
C33_RuntimeOnlyByEvaluator == [][AdminOpStep => RuntimeKept]_vars

C33_Witness ==
    /\ pc = "idle"
    /\ ops > 0
    /\ \E c \in AllChecks :
          /\ ~c.Enabled
          /\ c.CheckedAt # 0
          /\ c.FullHistory # <<>>
          /\ c.TotalChecks > 0

----------------------------------------------------------------------------
(* GetAllHostAnalytics: three kinds of sections under the read lock *)

\* the orders a range over the keys of a map can yield
Orders(S) ==
    {sq \in [1..Cardinality(S) -> S] : \A i, j \in DOMAIN sq : i # j => sq[i] # sq[j]}

\* the store as a section under the read lock finds it
Store == [hosts |-> hosts, cfg |-> cfg]

\* passes and administrative operations completed so far
Completed == clock + ops

\* a step of the call: it holds the read lock, so no pass is running; it
\* notes the store it finds and whether more than one writer came by since
\* the step before
CallStep(pos, names, result) ==
    /\ pc = "idle"
    /\ rd' = [pos |-> pos, names |-> names, result |-> result,
              seen |-> rd.seen \cup {Store}, step |-> Completed,
              gap |-> rd.gap \/ (rd.pos # "off" /\ Completed > rd.step + 1)]
    /\ UNCHANGED <<hosts, checksByID, cfg, configPath, disk, ret, eventLog, pc,
                   clock, now, todo, cur, idx, loc, out, probe, ops, sched, net, lk>>

\* RLock; for name := range s.hosts { hostNames = append(...) }; RUnlock
GetAllNames ==
    /\ rd.pos = "off"
    /\ view = NoView
    /\ \E sq \in Orders(DOMAIN hosts) : CallStep("each", sq, <<>>)
    /\ UNCHANGED view

\* one iteration of "for _, name := range hostNames": GetHostAnalytics(name)
\* takes the read lock for itself; a name that is gone is left out
GetAllEach ==
    /\ rd.pos = "each"
    /\ rd.names # <<>>
    /\ CallStep("each", Tail(rd.names),
                IF Head(rd.names) \in DOMAIN hosts
                THEN Append(rd.result, HostAnalytics(hosts, Head(rd.names)))
                ELSE rd.result)
    /\ UNCHANGED view

\* the results sort.Slice can leave: ascending by order[Name], entries of
\* equal order in any order
SortedByOrder(result, c) ==
    {[k \in DOMAIN result |-> result[sq[k]]] : sq \in
        {sq \in Orders(DOMAIN result) :
            \A i, j \in DOMAIN sq :
                i < j => OrderOf(c, result[sq[i]].Name) <= OrderOf(c, result[sq[j]].Name)}}

\* RLock; order[h.Name] = i over s.cfg.Hosts; RUnlock; sort; return
GetAllSort ==
    /\ rd.pos = "each"
    /\ rd.names = <<>>
    /\ CallStep("done", <<>>, rd.result)
    /\ \E got \in SortedByOrder(rd.result, cfg) :
          view' = [op |-> "GetAllHostAnalytics", at |-> clock, got |-> got,
                   cells |-> <<>>]

GetAllHostAnalytics == GetAllNames \/ GetAllEach \/ GetAllSort

\* the hosts the operations of this run name
TornNames == {"h2", "h3"}

\* passes whose probes succeed, hosts added, renamed and deleted, and one
\* GetAllHostAnalytics call
TornStep ==
    \/ BeginPassAdmin
    \/ NextHost
    \/ Evaluate(ResUp)
    \/ EndPass
    \/ \E n \in TornNames, a \in Addresses, u \in HCURLs : AddHost(n, a, u)
    \/ \E o \in TornNames, n \in TornNames, a \in Addresses, u \in HCURLs :
          UpdateHost(o, n, a, u)
    \/ \E n \in TornNames : DeleteHost(n)
    \/ GetAllNames
    \/ GetAllEach
    \/ GetAllSort

InitTorn == InitAdmin

NextTorn == TornStep

SpecTorn == InitTorn /\ [][NextTorn]_vars

\* the analytics of every host of a store, in the order of the config
AnalyticsOf(S) ==
    {[k \in DOMAIN sq |-> HostAnalytics(S.hosts, sq[k])] : sq \in Sorted(S.hosts, S.cfg)}

\* the call has returned and at most one writer came by between two of its
\* sections, so that rd.seen holds every store there was during the call
Returned == view.op = "GetAllHostAnalytics" /\ rd.pos = "done" /\ ~rd.gap

\* C34: the result of GetAllHostAnalytics holds exactly one entry per host
\* of a single state of the store, in declaration order, all entries
\* computed from that state, also when passes and host additions, deletions
\* and renames run during the call.
C34_NoTornRead ==
    Returned => \E S \in rd.seen : view.got \in AnalyticsOf(S)

----------------------------------------------------------------------------
(* Suppression across passes *)

\* the probe of check c failed in the pass at time t
FailedAt(c, t) ==
    \E k \in DOMAIN c.FullHistory :
        c.FullHistory[k].Timestamp = t /\ ~c.FullHistory[k].OK

\* check d depends on a check the index resolves, enabled as d is, whose
\* probe failed in the last two passes, and the probe of d failed in the
\* last pass
ParentFailedTwice(d) ==
    /\ clock >= 2
    /\ d.Enabled
    /\ d.DependsOn \in DOMAIN checksByID
    /\ LET parent == Deref(checksByID[d.DependsOn])
       IN /\ parent.Enabled
          /\ FailedAt(parent, clock - 1)
          /\ FailedAt(parent, clock)
    /\ FailedAt(d, clock)

\* C35: when the probe of an enabled parent fails in two consecutive passes,
\* every enabled dependent whose own probe failed in the second pass is
\* BLOCKED after that pass, in whatever order the passes visited the checks.
C35_SuppressionLagsOnePass ==
    pc = "idle" => \A d \in AllChecks : ParentFailedTwice(d) => IsBLOCKED(d)

\* the dependent was visited before its parent in the first of the two
\* passes and went DOWN there
C35_Witness ==
    /\ pc = "idle"
    /\ \E d \in AllChecks :
          /\ ParentFailedTwice(d)
          /\ IsBLOCKED(d)
          /\ d.LastDownAt = clock - 1

----------------------------------------------------------------------------
(* The order of the events of one check *)

\* the events logged for check i (0-based) of host h, oldest first
LogOf(h, i) ==
    SelectSeq(eventLog, LAMBDA e : e.HostName = h /\ e.CheckIdx = i)

\* the event before every recovered event of a check is a down event
RecoveredAfterDown(L) ==
    \A k \in DOMAIN L :
        L[k].EventType = "recovered" => k > 1 /\ L[k - 1].EventType = "down"

\* the event before every down event of a check, if any, is a recovered event
DownAfterRecovered(L) ==
    \A k \in DOMAIN L :
        L[k].EventType = "down" /\ k > 1 => L[k - 1].EventType = "recovered"

\* C36: with no administrative operations and no eviction from the log,
\* every recovered event of a check is preceded in the event log by a down
\* event of the same check, with no other recovered event of that check
\* between the two.
C36_RecoveredFollowsDown ==
    \A key \in CheckKeys(hosts) : RecoveredAfterDown(LogOf(key[1], key[2]))

\* a parent and one dependent on another host, and passes enough for the
\* dependent to go down, be blocked and come back
MaxChainPasses == 4

ChainConfig ==
    <<CfgHost("h1", "10.0.0.1", "",
              <<CfgCheck(CheckPing, TRUE, "", 0, 0, "a", "", TRUE)>>),
      CfgHost("h2", "10.0.0.2", "",
              <<CfgCheck(CheckTCP, TRUE, "", 0, 0, "c", "a", TRUE)>>)>>

InitChain == InitWith(ChainConfig) /\ probe = <<>>

ChainStep ==
    \/ BeginPassUpTo(MaxChainPasses)
    \/ NextHost
    \/ EvaluateAny
    \/ EndPass

NextChain == ChainStep

SpecChain == InitChain /\ [][NextChain]_vars

\* C37: with no administrative operations and no eviction from the log, a
\* check never logs two down events without a recovered event of that check
\* between them, whatever the probe outcomes of the check and its ancestors.
C37_DownsAlternate ==
    \A key \in CheckKeys(hosts) : DownAfterRecovered(LogOf(key[1], key[2]))

----------------------------------------------------------------------------
(* The status of a check is one of three *)

\* how many of UP, DOWN and BLOCKED a check is in
StatesOf(c) ==
    Cardinality({k \in {"UP", "DOWN", "BLOCKED"} :
        \/ k = "UP" /\ IsUP(c)
        \/ k = "DOWN" /\ IsDOWN(c)
        \/ k = "BLOCKED" /\ IsBLOCKED(c)})

\* C38: in every reachable state, under any interleaving of passes and
\* administrative operations, a check with parentFailed set has ok clear, so
\* that every evaluated check is in exactly one of UP, DOWN and BLOCKED.
C38_OneStatus ==
    \A c \in AllChecks :
        /\ c.ParentFailed => ~c.OK
        /\ c.CheckedAt # 0 => StatesOf(c) = 1

C38_Witness ==
    /\ ops > 0
    /\ \E b, u, d \in AllChecks : IsBLOCKED(b) /\ IsUP(u) /\ IsDOWN(d)

----------------------------------------------------------------------------
(* The scheduler makes progress *)

\* the probe of the parent check answers freely, the probes of the checks
\* that depend on it and of added hosts fail
EvaluateParentFree ==
    \E res \in Results : (cur = "h1" \/ res = ResErr) /\ Evaluate(res)

\* the scheduler goroutine with its passes, the owner of the stop channel,
\* administrative operations that leave the dependency graph acyclic, and a
\* reader
LiveStep ==
    \/ RunFirst
    \/ Tick
    \/ SelectTick
    \/ Stop
    \/ SelectStop
    \/ NextHost
    \/ SkipDisabled
    \/ EvaluateParentFree
    \/ EndPass
    \/ \E a \in Addresses, u \in HCURLs : AddHost("h3", a, u)
    \/ RemoveCheck("h2", 0)
    \/ \E e \in BOOLEAN : Toggle("h2", 0, e)
    \/ Snapshot

\* the state New(c) returns, with the goroutine of StartScheduler launched
InitLive ==
    /\ cfg = ChainConfig
    /\ hosts = New(ChainConfig)
    /\ checksByID \in rebuildCheckIndex(New(ChainConfig))
    /\ configPath = ""
    /\ disk = <<>>
    /\ ret = "nil"
    /\ eventLog = <<>>
    /\ pc = "idle"
    /\ clock = 0
    /\ now = 0
    /\ todo = {}
    /\ cur = ""
    /\ idx = 0
    /\ loc = NoLoc
    /\ out = NoOut
    /\ ops = 0
    /\ view = NoView
    /\ sched = Launched
    /\ net = TRUE
    /\ rd = NoRead
    /\ lk = NoLocks
    /\ probe = <<>>

NextLive == LiveStep

\* the goroutine of the scheduler is scheduled, every probe returns, and the
\* ticker keeps ticking
FairLive ==
    /\ WF_vars(RunFirst)
    /\ WF_vars(NextHost)
    /\ WF_vars(SkipDisabled)
    /\ WF_vars(EvaluateParentFree)
    /\ WF_vars(EndPass)
    /\ WF_vars(Tick)
    /\ WF_vars(SelectTick)

SpecLive == InitLive /\ [][NextLive]_vars /\ FairLive

\* a check is at index i of host h
Present(h, i) == h \in DOMAIN hosts /\ i < Len(hosts[h].Checks)

\* the scheduler has a pass to come: it has not been told to stop and the
\* passes of this run are not used up
PassToCome ==
    /\ sched.pos \in {"start", "loop"}
    /\ ~sched.stop
    /\ clock < MaxAdminPasses

\* an enabled check at index i of host h is waiting for its first evaluation
Waiting(h, i) ==
    /\ Present(h, i)
    /\ hosts[h].Checks[i + 1].Enabled
    /\ hosts[h].Checks[i + 1].CheckedAt = 0
    /\ pc = "idle"
    /\ PassToCome

\* the check at index i of host h has been evaluated, or it did not stay:
\* it was disabled or removed, or the scheduler was stopped
Served(h, i) ==
    \/ ~Present(h, i)
    \/ ~hosts[h].Checks[i + 1].Enabled
    \/ hosts[h].Checks[i + 1].CheckedAt # 0
    \/ sched.stop

\* the first pass is started by the goroutine on its way to the loop, with
\* no tick taken
FirstPassAtOnce == clock = 0 /\ clock' = 1 => sched.pos = "start" /\ ~sched.tick

\* C39: after StartScheduler, with probes that return, an acyclic dependency
\* graph and a fairly scheduled goroutine, the first pass starts without
\* waiting for a tick and completes, and every check that stays enabled is
\* eventually evaluated, while readers and administrative operations arrive.
C39_SchedulerLive ==
    /\ [][FirstPassAtOnce]_vars
    /\ <>(clock >= 1 /\ pc = "idle")
    /\ \A h \in HostNames : Waiting(h, 0) ~> Served(h, 0)

\* a check added after the first pass, evaluated by the pass of a tick,
\* with a reader and two operations on the way
C39_Witness ==
    /\ "h3" \in DOMAIN hosts
    /\ hosts["h3"].Checks # <<>>
    /\ hosts["h3"].Checks[1].CheckedAt = 2
    /\ \A c \in AllChecks : c.Enabled => c.CheckedAt # 0
    /\ ops > 1
    /\ view # NoView
    /\ pc = "idle"

----------------------------------------------------------------------------
(* The two locks: s.mu and eventLogMutex *)

\* the key of the check the pass is at, for the probe it is waiting for
ProbeKey == <<cur, idx, now>>

\* checks.PingOnce / HTTPGet / TCPCheck returns res: the pass holds s.mu and
\* has its result in hand before it comes to logEvent
ProbeReturns(res) ==
    /\ pc = "running"
    /\ cur # ""
    /\ hosts[cur].Checks[idx + 1].Enabled
    /\ ProbeKey \notin DOMAIN probe
    /\ probe' = probe @@ (ProbeKey :> res)
    /\ UNCHANGED <<hosts, checksByID, cfg, configPath, disk, ret, eventLog, pc,
                   clock, now, todo, cur, idx, loc, out, ops, view, sched, net,
                   rd, lk>>

\* the rest of the loop body: logEvent takes eventLogMutex for writing, so
\* an evaluation that logs waits until no reader holds it
EvaluateReturned ==
    /\ ProbeKey \in DOMAIN probe
    /\ Evaluate(probe[ProbeKey])
    /\ out'.events # <<>> => lk.ev = {}

\* runOnce: s.mu.Lock() waits until no reader holds s.mu
LockedBeginPass == lk.mu = {} /\ BeginPassUpTo(MaxAdminPasses)

\* a step of the pass that holds s.mu
PassStep ==
    \/ NextHost
    \/ SkipDisabled
    \/ \E res \in Results : ProbeReturns(res)
    \/ EvaluateReturned
    \/ EndPass

\* a lock acquired or released by a reader, the store left as it is
KeepAll ==
    UNCHANGED <<hosts, checksByID, cfg, configPath, disk, ret, eventLog, pc,
                clock, now, todo, cur, idx, loc, out, probe, ops, view, sched,
                net, rd>>

\* Snapshot: s.mu.RLock() waits while a pass or an operation holds s.mu
RLockStore ==
    /\ pc = "idle"
    /\ "Snapshot" \notin lk.mu
    /\ lk' = [lk EXCEPT !.mu = @ \cup {"Snapshot"}]
    /\ KeepAll

ReadStore == "Snapshot" \in lk.mu /\ Snapshot

\* the deferred s.mu.RUnlock()
RUnlockStore ==
    /\ "Snapshot" \in lk.mu
    /\ lk' = [lk EXCEPT !.mu = @ \ {"Snapshot"}]
    /\ KeepAll

\* GetEvents: eventLogMutex.RLock(); logEvent holds the lock for writing
\* within one step of the pass only
RLockEvents ==
    /\ "GetEvents" \notin lk.ev
    /\ lk' = [lk EXCEPT !.ev = @ \cup {"GetEvents"}]
    /\ KeepAll

ReadEvents == "GetEvents" \in lk.ev /\ \E limit \in {0, 1} : GetEvents(limit)

\* a GetEvents that looks into the store before it returns: it takes
\* s.mu.RLock() while it holds eventLogMutex
RUnlockEventsAfterStore ==
    /\ "GetEvents" \in lk.ev
    /\ pc = "idle"
    /\ lk' = [lk EXCEPT !.ev = @ \ {"GetEvents"}]
    /\ KeepAll

\* the deferred eventLogMutex.RUnlock()
RUnlockEvents ==
    /\ "GetEvents" \in lk.ev
    /\ lk' = [lk EXCEPT !.ev = @ \ {"GetEvents"}]
    /\ KeepAll

\* an administrative operation: s.mu.Lock() waits until no reader holds s.mu
LockedToggle(e) == lk.mu = {} /\ Toggle("h1", 0, e)

LocksStep ==
    \/ LockedBeginPass
    \/ NextHost
    \/ SkipDisabled
    \/ \E res \in Results : ProbeReturns(res)
    \/ EvaluateReturned
    \/ EndPass
    \/ RLockStore
    \/ ReadStore
    \/ RUnlockStore
    \/ RLockEvents
    \/ ReadEvents
    \/ RUnlockEvents
    \/ \E e \in BOOLEAN : LockedToggle(e)

InitLocks == InitWith(ChainConfig) /\ probe = <<>>

NextLocks == LocksStep

\* a goroutine that can run does run; sync.RWMutex turns new readers away
\* while a writer waits, so the pass is not overtaken for ever
FairLocks ==
    /\ SF_vars(PassStep)
    /\ WF_vars(RUnlockStore)
    /\ WF_vars(RUnlockEvents)

SpecLocks == InitLocks /\ [][NextLocks]_vars /\ FairLocks

\* an operation is in progress: it holds a lock
InProgress == pc = "running" \/ lk.mu # {} \/ lk.ev # {}

\* a step of an operation that is in progress
Progress == PassStep \/ RUnlockStore \/ RUnlockEvents

\* while operations are in progress one of them can take its next step
NoDeadlock == InProgress => ENABLED Progress

\* the event log is written by the pass only, which holds s.mu then
LogUnderStore == eventLog' # eventLog => pc = "running" /\ pc' = "running"

\* C40: under any interleaving of a pass, administrative operations, status
\* readers and readers of the event log, eventLogMutex is taken for writing
\* only by the holder of s.mu and no holder of eventLogMutex waits for s.mu,
\* so that the operations in progress never wait for each other in a cycle,
\* and every pass and every reader that holds a lock goes on to release it.
C40_DeadlockFree ==
    /\ []NoDeadlock
    /\ [][LogUnderStore]_vars
    /\ (pc = "running") ~> (pc = "idle")
    /\ (lk.mu # {}) ~> (lk.mu = {})
    /\ (lk.ev # {}) ~> (lk.ev = {})

\* the pass has a down or recovered event to log while GetEvents holds the
\* event-log lock and Snapshot waits for the store lock
C40_Witness ==
    /\ pc = "running"
    /\ ProbeKey \in DOMAIN probe
    /\ lk.ev # {}
    /\ ~ENABLED EvaluateReturned
    /\ ops > 0

====
